---- MODULE Spec2Model ----
(***************************************************************************)
(* Model of the multi-tenant Telegram payment gateway (server_multi.py).   *)
(*                                                                         *)
(* Strings that the program takes apart (order ids, query values, secrets, *)
(* parameter names) are sequences of one-character strings, so that        *)
(* split, join, int() and sorted() are computed and not assumed.  Message  *)
(* texts are sequences of string fragments (a literal of the source is one *)
(* fragment, an interpolated value is spelled character by character).     *)
(***************************************************************************)
EXTENDS Integers, Sequences, FiniteSets, TLC

VARIABLES
    DYNAMIC_WHITELISTS, \* bot_key -> set of chat ids          (line 89)
    last_link_msg,      \* bot_key -> (chat_id -> session)      (line 65)
    order_map,          \* order_id -> (bot_key, chat_id, message_id) (line 68)
    next_step,          \* (bot_key, chat_id) -> number of next-step handlers held
    upd,                \* Telegram updates in flight, one record per slot
    cp,                 \* the /create_payment call in flight (thread pool)
    msg_seq,            \* message ids handed out by the Bot API so far
    np_reqs,            \* requests create_payment_core has sent to the processor
    eff,                \* what the last completed step did (response, API calls)
    pure                \* input and output of the last pure-function evaluation

vars == <<DYNAMIC_WHITELISTS, last_link_msg, order_map, next_step, upd, cp,
          msg_seq, np_reqs, eff, pure>>

-----------------------------------------------------------------------------
(* Bounds of the model                                                     *)

\* message ids the Bot API hands out before the model stops creating messages
MaxMsgId == 2
\* /info annotations accepted per session before the model stops appending
MaxAppend == 2
\* distinct requests the processor is sent before the model stops issuing
MaxReqs == 2
\* next-step handlers registered for one chat and not yet called
MaxPrompts == 2

-----------------------------------------------------------------------------
(* Strings                                                                 *)

\* Python's None where a string is expected (no one-character string)
None == <<"None">>

\* A character is a one-character string.  A character that a string of
\* this module cannot hold is written as its escape, "\\u0966" for U+0966,
\* and is one character all the same.

\* the digits str() writes
Digits == <<"0", "1", "2", "3", "4", "5", "6", "7", "8", "9">>

IsAsciiDigit(c) == \E i \in 1..10 : Digits[i] = c

\* DecimalDigits[v + 1]: the characters int() reads as the digit v (the
\* decimal digits of every script)
DecimalDigits ==
    << {"0", "\\u0660", "۰", "߀", "\\u0966", "০", "\\u0a66", "૦",
        "\\u0b66", "௦", "\\u0c66", "೦", "\\u0d66", "෦", "\\u0e50", "໐",
        "\\u0f20", "\\u1040", "႐", "០", "\\u1810", "\\u1946", "᧐", "᪀",
        "᪐", "\\u1b50", "᮰", "\\u1c40", "\\u1c50", "\\ua620", "꣐",
        "\\ua900", "꧐", "꧰", "\\uaa50", "꯰", "\\uff10", "\\U000104a0",
        "\\U00010d30", "\\U00011066", "\\U000110f0", "\\U00011136",
        "\\U000111d0", "\\U000112f0", "\\U00011450", "\\U000114d0",
        "\\U00011650", "\\U000116c0", "\\U00011730", "\\U000118e0",
        "\\U00011950", "\\U00011c50", "\\U00011d50", "\\U00011da0",
        "\\U00016a60", "\\U00016ac0", "\\U00016b50", "\\U0001d7ce",
        "\\U0001d7d8", "\\U0001d7e2", "\\U0001d7ec", "\\U0001d7f6",
        "\\U0001e140", "\\U0001e2f0", "\\U0001e950", "\\U0001fbf0"},
       {"1", "\\u0661", "۱", "߁", "\\u0967", "১", "\\u0a67", "૧",
        "\\u0b67", "௧", "\\u0c67", "೧", "\\u0d67", "෧", "\\u0e51", "໑",
        "\\u0f21", "\\u1041", "႑", "១", "\\u1811", "\\u1947", "᧑", "᪁",
        "᪑", "\\u1b51", "᮱", "\\u1c41", "\\u1c51", "\\ua621", "꣑",
        "\\ua901", "꧑", "꧱", "\\uaa51", "꯱", "\\uff11", "\\U000104a1",
        "\\U00010d31", "\\U00011067", "\\U000110f1", "\\U00011137",
        "\\U000111d1", "\\U000112f1", "\\U00011451", "\\U000114d1",
        "\\U00011651", "\\U000116c1", "\\U00011731", "\\U000118e1",
        "\\U00011951", "\\U00011c51", "\\U00011d51", "\\U00011da1",
        "\\U00016a61", "\\U00016ac1", "\\U00016b51", "\\U0001d7cf",
        "\\U0001d7d9", "\\U0001d7e3", "\\U0001d7ed", "\\U0001d7f7",
        "\\U0001e141", "\\U0001e2f1", "\\U0001e951", "\\U0001fbf1"},
       {"2", "\\u0662", "۲", "߂", "\\u0968", "২", "\\u0a68", "૨",
        "\\u0b68", "௨", "\\u0c68", "೨", "\\u0d68", "෨", "\\u0e52", "໒",
        "\\u0f22", "\\u1042", "႒", "២", "\\u1812", "\\u1948", "᧒", "᪂",
        "᪒", "\\u1b52", "᮲", "\\u1c42", "\\u1c52", "\\ua622", "꣒",
        "\\ua902", "꧒", "꧲", "\\uaa52", "꯲", "\\uff12", "\\U000104a2",
        "\\U00010d32", "\\U00011068", "\\U000110f2", "\\U00011138",
        "\\U000111d2", "\\U000112f2", "\\U00011452", "\\U000114d2",
        "\\U00011652", "\\U000116c2", "\\U00011732", "\\U000118e2",
        "\\U00011952", "\\U00011c52", "\\U00011d52", "\\U00011da2",
        "\\U00016a62", "\\U00016ac2", "\\U00016b52", "\\U0001d7d0",
        "\\U0001d7da", "\\U0001d7e4", "\\U0001d7ee", "\\U0001d7f8",
        "\\U0001e142", "\\U0001e2f2", "\\U0001e952", "\\U0001fbf2"},
       {"3", "\\u0663", "۳", "߃", "\\u0969", "৩", "\\u0a69", "૩",
        "\\u0b69", "௩", "\\u0c69", "೩", "\\u0d69", "෩", "\\u0e53", "໓",
        "\\u0f23", "\\u1043", "႓", "៣", "\\u1813", "\\u1949", "᧓", "᪃",
        "᪓", "\\u1b53", "᮳", "\\u1c43", "\\u1c53", "\\ua623", "꣓",
        "\\ua903", "꧓", "꧳", "\\uaa53", "꯳", "\\uff13", "\\U000104a3",
        "\\U00010d33", "\\U00011069", "\\U000110f3", "\\U00011139",
        "\\U000111d3", "\\U000112f3", "\\U00011453", "\\U000114d3",
        "\\U00011653", "\\U000116c3", "\\U00011733", "\\U000118e3",
        "\\U00011953", "\\U00011c53", "\\U00011d53", "\\U00011da3",
        "\\U00016a63", "\\U00016ac3", "\\U00016b53", "\\U0001d7d1",
        "\\U0001d7db", "\\U0001d7e5", "\\U0001d7ef", "\\U0001d7f9",
        "\\U0001e143", "\\U0001e2f3", "\\U0001e953", "\\U0001fbf3"},
       {"4", "\\u0664", "۴", "߄", "\\u096a", "৪", "\\u0a6a", "૪",
        "\\u0b6a", "௪", "\\u0c6a", "೪", "\\u0d6a", "෪", "\\u0e54", "໔",
        "\\u0f24", "\\u1044", "႔", "៤", "\\u1814", "\\u194a", "᧔", "᪄",
        "᪔", "\\u1b54", "᮴", "\\u1c44", "\\u1c54", "\\ua624", "꣔",
        "\\ua904", "꧔", "꧴", "\\uaa54", "꯴", "\\uff14", "\\U000104a4",
        "\\U00010d34", "\\U0001106a", "\\U000110f4", "\\U0001113a",
        "\\U000111d4", "\\U000112f4", "\\U00011454", "\\U000114d4",
        "\\U00011654", "\\U000116c4", "\\U00011734", "\\U000118e4",
        "\\U00011954", "\\U00011c54", "\\U00011d54", "\\U00011da4",
        "\\U00016a64", "\\U00016ac4", "\\U00016b54", "\\U0001d7d2",
        "\\U0001d7dc", "\\U0001d7e6", "\\U0001d7f0", "\\U0001d7fa",
        "\\U0001e144", "\\U0001e2f4", "\\U0001e954", "\\U0001fbf4"},
       {"5", "\\u0665", "۵", "߅", "\\u096b", "৫", "\\u0a6b", "૫",
        "\\u0b6b", "௫", "\\u0c6b", "೫", "\\u0d6b", "෫", "\\u0e55", "໕",
        "\\u0f25", "\\u1045", "႕", "៥", "\\u1815", "\\u194b", "᧕", "᪅",
        "᪕", "\\u1b55", "᮵", "\\u1c45", "\\u1c55", "\\ua625", "꣕",
        "\\ua905", "꧕", "꧵", "\\uaa55", "꯵", "\\uff15", "\\U000104a5",
        "\\U00010d35", "\\U0001106b", "\\U000110f5", "\\U0001113b",
        "\\U000111d5", "\\U000112f5", "\\U00011455", "\\U000114d5",
        "\\U00011655", "\\U000116c5", "\\U00011735", "\\U000118e5",
        "\\U00011955", "\\U00011c55", "\\U00011d55", "\\U00011da5",
        "\\U00016a65", "\\U00016ac5", "\\U00016b55", "\\U0001d7d3",
        "\\U0001d7dd", "\\U0001d7e7", "\\U0001d7f1", "\\U0001d7fb",
        "\\U0001e145", "\\U0001e2f5", "\\U0001e955", "\\U0001fbf5"},
       {"6", "\\u0666", "۶", "߆", "\\u096c", "৬", "\\u0a6c", "૬",
        "\\u0b6c", "௬", "\\u0c6c", "೬", "\\u0d6c", "෬", "\\u0e56", "໖",
        "\\u0f26", "\\u1046", "႖", "៦", "\\u1816", "\\u194c", "᧖", "᪆",
        "᪖", "\\u1b56", "᮶", "\\u1c46", "\\u1c56", "\\ua626", "꣖",
        "\\ua906", "꧖", "꧶", "\\uaa56", "꯶", "\\uff16", "\\U000104a6",
        "\\U00010d36", "\\U0001106c", "\\U000110f6", "\\U0001113c",
        "\\U000111d6", "\\U000112f6", "\\U00011456", "\\U000114d6",
        "\\U00011656", "\\U000116c6", "\\U00011736", "\\U000118e6",
        "\\U00011956", "\\U00011c56", "\\U00011d56", "\\U00011da6",
        "\\U00016a66", "\\U00016ac6", "\\U00016b56", "\\U0001d7d4",
        "\\U0001d7de", "\\U0001d7e8", "\\U0001d7f2", "\\U0001d7fc",
        "\\U0001e146", "\\U0001e2f6", "\\U0001e956", "\\U0001fbf6"},
       {"7", "\\u0667", "۷", "߇", "\\u096d", "৭", "\\u0a6d", "૭",
        "\\u0b6d", "௭", "\\u0c6d", "೭", "\\u0d6d", "෭", "\\u0e57", "໗",
        "\\u0f27", "\\u1047", "႗", "៧", "\\u1817", "\\u194d", "᧗", "᪇",
        "᪗", "\\u1b57", "᮷", "\\u1c47", "\\u1c57", "\\ua627", "꣗",
        "\\ua907", "꧗", "꧷", "\\uaa57", "꯷", "\\uff17", "\\U000104a7",
        "\\U00010d37", "\\U0001106d", "\\U000110f7", "\\U0001113d",
        "\\U000111d7", "\\U000112f7", "\\U00011457", "\\U000114d7",
        "\\U00011657", "\\U000116c7", "\\U00011737", "\\U000118e7",
        "\\U00011957", "\\U00011c57", "\\U00011d57", "\\U00011da7",
        "\\U00016a67", "\\U00016ac7", "\\U00016b57", "\\U0001d7d5",
        "\\U0001d7df", "\\U0001d7e9", "\\U0001d7f3", "\\U0001d7fd",
        "\\U0001e147", "\\U0001e2f7", "\\U0001e957", "\\U0001fbf7"},
       {"8", "\\u0668", "۸", "߈", "\\u096e", "৮", "\\u0a6e", "૮",
        "\\u0b6e", "௮", "\\u0c6e", "೮", "\\u0d6e", "෮", "\\u0e58", "໘",
        "\\u0f28", "\\u1048", "႘", "៨", "\\u1818", "\\u194e", "᧘", "᪈",
        "᪘", "\\u1b58", "᮸", "\\u1c48", "\\u1c58", "\\ua628", "꣘",
        "\\ua908", "꧘", "꧸", "\\uaa58", "꯸", "\\uff18", "\\U000104a8",
        "\\U00010d38", "\\U0001106e", "\\U000110f8", "\\U0001113e",
        "\\U000111d8", "\\U000112f8", "\\U00011458", "\\U000114d8",
        "\\U00011658", "\\U000116c8", "\\U00011738", "\\U000118e8",
        "\\U00011958", "\\U00011c58", "\\U00011d58", "\\U00011da8",
        "\\U00016a68", "\\U00016ac8", "\\U00016b58", "\\U0001d7d6",
        "\\U0001d7e0", "\\U0001d7ea", "\\U0001d7f4", "\\U0001d7fe",
        "\\U0001e148", "\\U0001e2f8", "\\U0001e958", "\\U0001fbf8"},
       {"9", "\\u0669", "۹", "߉", "\\u096f", "৯", "\\u0a6f", "૯",
        "\\u0b6f", "௯", "\\u0c6f", "೯", "\\u0d6f", "෯", "\\u0e59", "໙",
        "\\u0f29", "\\u1049", "႙", "៩", "\\u1819", "\\u194f", "᧙", "᪉",
        "᪙", "\\u1b59", "᮹", "\\u1c49", "\\u1c59", "\\ua629", "꣙",
        "\\ua909", "꧙", "꧹", "\\uaa59", "꯹", "\\uff19", "\\U000104a9",
        "\\U00010d39", "\\U0001106f", "\\U000110f9", "\\U0001113f",
        "\\U000111d9", "\\U000112f9", "\\U00011459", "\\U000114d9",
        "\\U00011659", "\\U000116c9", "\\U00011739", "\\U000118e9",
        "\\U00011959", "\\U00011c59", "\\U00011d59", "\\U00011da9",
        "\\U00016a69", "\\U00016ac9", "\\U00016b59", "\\U0001d7d7",
        "\\U0001d7e1", "\\U0001d7eb", "\\U0001d7f5", "\\U0001d7ff",
        "\\U0001e149", "\\U0001e2f9", "\\U0001e959", "\\U0001fbf9"} >>

\* c is a decimal digit for int() and str.isdecimal()
IsDigit(c) == \E v \in 0..9 : c \in DecimalDigits[v + 1]

DigitVal(c) == CHOOSE v \in 0..9 : c \in DecimalDigits[v + 1]

\* code-point order of the characters parameter names are made of
NameAlphabet ==
    <<"_", "a", "b", "c", "d", "e", "f", "g", "h", "i", "j", "k", "l", "m",
      "n", "o", "p", "q", "r", "s", "t", "u", "v", "w", "x", "y", "z">>

Code(c) == CHOOSE i \in 1..Len(NameAlphabet) : NameAlphabet[i] = c

\* a < b for Python str: first differing code point, else the shorter one
RECURSIVE StrLess(_, _)
StrLess(a, b) ==
    IF b = <<>> THEN FALSE
    ELSE IF a = <<>> THEN TRUE
    ELSE IF Head(a) = Head(b) THEN StrLess(Tail(a), Tail(b))
    ELSE Code(Head(a)) < Code(Head(b))

\* sep.join(parts)
RECURSIVE Join(_, _)
Join(sep, parts) ==
    IF parts = <<>> THEN <<>>
    ELSE IF Len(parts) = 1 THEN parts[1]
    ELSE parts[1] \o sep \o Join(sep, Tail(parts))

\* s.split(c) for a one-character separator c
RECURSIVE SplitFrom(_, _, _)
SplitFrom(s, c, cur) ==
    IF s = <<>> THEN <<cur>>
    ELSE IF Head(s) = c THEN <<cur>> \o SplitFrom(Tail(s), c, <<>>)
    ELSE SplitFrom(Tail(s), c, Append(cur, Head(s)))

Split(s, c) == SplitFrom(s, c, <<>>)

Contains(s, c) == \E i \in 1..Len(s) : s[i] = c

\* str(n) for a non-negative n
RECURSIVE NatToStr(_)
NatToStr(n) ==
    IF n < 10 THEN <<Digits[n + 1]>>
    ELSE Append(NatToStr(n \div 10), Digits[(n % 10) + 1])

\* str(n), what an f-string puts for an int
IntToStr(n) == IF n < 0 THEN <<"-">> \o NatToStr(0 - n) ELSE NatToStr(n)

RECURSIVE DigitsVal(_, _)
DigitsVal(s, acc) ==
    IF s = <<>> THEN acc ELSE DigitsVal(Tail(s), 10 * acc + DigitVal(Head(s)))

\* s is a non-empty run of the digits 0..9
AllDigits(s) == s /= <<>> /\ \A i \in 1..Len(s) : IsAsciiDigit(s[i])

\* characters that count as digits for str.isdigit() and are no digits for
\* int(): superscripts, subscripts, circled and other digit forms
SuperDigits ==
    {"²", "³", "¹", "\\u1369", "\\u136a", "\\u136b", "\\u136c",
     "\\u136d", "\\u136e", "\\u136f", "\\u1370", "\\u1371", "᧚",
     "\\u2070", "\\u2074", "\\u2075", "\\u2076", "\\u2077", "\\u2078",
     "\\u2079", "₀", "₁", "₂", "₃", "₄", "₅", "₆", "₇", "₈", "₉",
     "\\u2460", "\\u2461", "\\u2462", "\\u2463", "\\u2464", "\\u2465",
     "\\u2466", "\\u2467", "\\u2468", "\\u2474", "\\u2475", "\\u2476",
     "\\u2477", "\\u2478", "\\u2479", "\\u247a", "\\u247b", "\\u247c",
     "⒈", "⒉", "⒊", "⒋", "⒌", "⒍", "⒎", "⒏", "⒐", "⓪", "⓵", "⓶", "⓷",
     "⓸", "⓹", "⓺", "⓻", "⓼", "⓽", "⓿", "\\u2776", "\\u2777", "\\u2778",
     "\\u2779", "\\u277a", "\\u277b", "\\u277c", "\\u277d", "\\u277e",
     "➀", "➁", "➂", "➃", "➄", "➅", "➆", "➇", "➈", "➊", "➋", "➌", "➍",
     "➎", "➏", "➐", "➑", "➒", "\\U00010a40", "\\U00010a41",
     "\\U00010a42", "\\U00010a43", "\\U00010e60", "\\U00010e61",
     "\\U00010e62", "\\U00010e63", "\\U00010e64", "\\U00010e65",
     "\\U00010e66", "\\U00010e67", "\\U00010e68", "\\U00011052",
     "\\U00011053", "\\U00011054", "\\U00011055", "\\U00011056",
     "\\U00011057", "\\U00011058", "\\U00011059", "\\U0001105a",
     "\\U0001f100", "\\U0001f101", "\\U0001f102", "\\U0001f103",
     "\\U0001f104", "\\U0001f105", "\\U0001f106", "\\U0001f107",
     "\\U0001f108", "\\U0001f109", "\\U0001f10a"}

\* the white space of str.strip(), str.split() and str.isspace()
WhiteSpace ==
    {"\t", "\n", "", "\f", "\r", "", "", "", "", " ", "", " ", " ",
     "\\u2000", "\\u2001", "\\u2002", "\\u2003", "\\u2004", "\\u2005",
     "\\u2006", "\\u2007", "\\u2008", "\\u2009", "\\u200a", "\\u2028",
     "\\u2029", "\\u202f", "\\u205f", "\\u3000"}

\* the separators FS, GS, RS and US are white space for the str methods and
\* not for int()
Separators == {"", "", "", ""}

\* s.isdigit()
isdigit(s) ==
    s /= <<>> /\ \A i \in 1..Len(s) : IsDigit(s[i]) \/ s[i] \in SuperDigits

\* c.isspace(): what str.strip() takes off and str.split() splits at
IsSpace(c) == c \in WhiteSpace

\* the white space int() takes off both ends
IsIntSpace(c) == c \in WhiteSpace \ Separators

RECURSIVE LStrip(_)
LStrip(s) == IF s /= <<>> /\ IsSpace(Head(s)) THEN LStrip(Tail(s)) ELSE s

RECURSIVE RStrip(_)
RStrip(s) ==
    IF s /= <<>> /\ IsSpace(s[Len(s)]) THEN RStrip(SubSeq(s, 1, Len(s) - 1)) ELSE s

\* s.strip()
Strip(s) == RStrip(LStrip(s))

\* s.split(): the runs of characters between white space
RECURSIVE WordsFrom(_, _)
WordsFrom(s, cur) ==
    IF s = <<>> THEN (IF cur = <<>> THEN <<>> ELSE <<cur>>)
    ELSE IF IsSpace(Head(s))
    THEN (IF cur = <<>> THEN <<>> ELSE <<cur>>) \o WordsFrom(Tail(s), <<>>)
    ELSE WordsFrom(Tail(s), Append(cur, Head(s)))

Words(s) == WordsFrom(s, <<>>)

\* the white space around the digits of int(s)
RECURSIVE IntStrip(_)
IntStrip(s) ==
    IF s /= <<>> /\ IsIntSpace(Head(s)) THEN IntStrip(Tail(s))
    ELSE IF s /= <<>> /\ IsIntSpace(s[Len(s)]) THEN IntStrip(SubSeq(s, 1, Len(s) - 1))
    ELSE s

\* the digits of an integer literal: decimal digits, with single underscores
\* allowed between two digits
IntDigits(s) ==
    /\ s /= <<>>
    /\ \A i \in 1..Len(s) : IsDigit(s[i]) \/ s[i] = "_"
    /\ IsDigit(s[1]) /\ IsDigit(s[Len(s)])
    /\ \A i \in 1..(Len(s) - 1) : ~(s[i] = "_" /\ s[i + 1] = "_")

RECURSIVE DropUnderscores(_)
DropUnderscores(s) ==
    IF s = <<>> THEN <<>>
    ELSE IF Head(s) = "_" THEN DropUnderscores(Tail(s))
    ELSE <<Head(s)>> \o DropUnderscores(Tail(s))

\* int(s): white space around, an optional sign, then decimal digits of any
\* script (underscores between digits are skipped); anything else raises
\* ValueError
ParseInt(s) ==
    LET t      == IntStrip(s)
        signed == t /= <<>> /\ Head(t) \in {"-", "+"}
        body   == IF signed THEN Tail(t) ELSE t
        val    == DigitsVal(DropUnderscores(body), 0)
    IN  IF IntDigits(body)
        THEN [ok |-> TRUE,
              val |-> IF signed /\ Head(t) = "-" THEN 0 - val ELSE val]
        ELSE [ok |-> FALSE, val |-> 0]
-----------------------------------------------------------------------------
(* Configuration (environment, read once at import)                        *)

B1 == <<"b", "1">>
\* a configured key that contains a dash (BOT_KEYS is split on commas only)
B2 == <<"b", "-", "2">>
\* a key with a processor secret in SECRET_KEYS that is not listed in BOT_KEYS
B3 == <<"b", "3">>
\* a key no configuration table knows
BX == <<"z", "z">>

\* BOT_KEYS, and after the bootstrap loop the keys of bots
BOT_KEYS == {B1, B2}

\* a bot for every key that has a processor secret
botsForSecrets == BOT_KEYS \cup {B3}

bots == BOT_KEYS

\* SECRET_KEYS: the startup check only demands an entry for every BOT_KEYS
\* member, the JSON may hold more
SECRET_KEYS == (B1 :> <<"s", "1">>) @@ (B2 :> <<"s", "2">>) @@ (B3 :> <<"s", "3">>)

\* TG_WEBHOOK_SECRETS after the startup loop: b2 has none configured and the
\* TG_WEBHOOK_SECRET fallback is unset, so its expected secret is empty
TG_WEBHOOK_SECRETS == (B1 :> <<"w", "1">>) @@ (B2 :> <<>>)

\* the two members of BASE_WHITELIST that fit TLC's 32-bit integers
\* (8051914154 and 7167283179 do not; all four are treated alike by the code)
BASE_WHITELIST == {958579430, 2095741832}

has_access(bot_key, chat_id) ==
    \/ chat_id \in BASE_WHITELIST
    \/ chat_id \in (IF bot_key \in DOMAIN DYNAMIC_WHITELISTS
                    THEN DYNAMIC_WHITELISTS[bot_key] ELSE {})

-----------------------------------------------------------------------------
(* Order ids                                                               *)

\* uuid.uuid4() from 16 random bytes: the version (4) goes into the high half
\* of the 7th byte, the variant (binary 10) into the top of the 9th
Uuid4(rand) ==
    [i \in 1..16 |-> IF i = 7 THEN 64 + (rand[i] % 16)
                     ELSE IF i = 9 THEN 128 + (rand[i] % 64)
                     ELSE rand[i]]

HexDigits == Digits \o <<"a", "b", "c", "d", "e", "f">>

\* .hex: two lowercase hexadecimal digits for each byte
Hex(bytes) ==
    [i \in 1..(2 * Len(bytes)) |->
        LET b == bytes[(i + 1) \div 2]
        IN  HexDigits[(IF i % 2 = 1 THEN b \div 16 ELSE b % 16) + 1]]

\* uuid.uuid4().hex[:8]
Suffix(rand) == SubSeq(Hex(Uuid4(rand)), 1, 8)

\* an order id that starts with the chat
MakeOrderIdChatFirst(bot_key, chat_id, suffix) ==
    IntToStr(chat_id) \o <<"-">> \o bot_key \o <<"-">> \o suffix

\* f"{bot_key}-{chat_id}-{uuid.uuid4().hex[:8]}"
MakeOrderId(bot_key, chat_id, suffix) ==
    bot_key \o <<"-">> \o IntToStr(chat_id) \o <<"-">> \o suffix

\* order_id.split("-", 1)[0] if "-" in order_id else None
HookBotKey(order_id) ==
    IF Contains(order_id, "-") THEN Split(order_id, "-")[1] ELSE None

\* a decoder that reads the chat from the first field
HookChatIdFirstField(order_id) ==
    LET parts == Split(order_id, "-")
    IN  IF Len(parts) >= 3 THEN ParseInt(parts[1]) ELSE [ok |-> FALSE, val |-> 0]

\* parts = order_id.split("-"); int(parts[1]) if len(parts) >= 3; None when
\* there are fewer parts or int() raises
HookChatId(order_id) ==
    LET parts == Split(order_id, "-")
    IN  IF Len(parts) >= 3 THEN ParseInt(parts[2]) ELSE [ok |-> FALSE, val |-> 0]

-----------------------------------------------------------------------------
(* Webhook signature                                                       *)

N_hash            == <<"h", "a", "s", "h">>
N_order_id        == <<"o", "r", "d", "e", "r", "_", "i", "d">>
N_result          == <<"r", "e", "s", "u", "l", "t">>
N_amount          == <<"a", "m", "o", "u", "n", "t">>
N_amount_currency == N_amount \o <<"_", "c", "u", "r", "r", "e", "n", "c", "y">>
N_profit          == <<"p", "r", "o", "f", "i", "t">>
N_profit_currency == N_profit \o <<"_", "c", "u", "r", "r", "e", "n", "c", "y">>

NP == <<"{", "n", "p", "}">>

\* A request's query string is a sequence of <<name, value>> pairs in arrival
\* order.  A dict is such a sequence with every name once, in insertion order.

HasName(d, name) == \E i \in 1..Len(d) : d[i][1] = name

\* d.get(name, default)
Get(d, name, default) ==
    IF HasName(d, name)
    THEN d[CHOOSE i \in 1..Len(d) :
             /\ d[i][1] = name
             /\ \A j \in (i + 1)..Len(d) : d[j][1] /= name][2]
    ELSE default

\* dict(request.query_params): a name keeps the place of its first occurrence
\* and the value of its last
RECURSIVE DictFrom(_, _)
DictFrom(query, i) ==
    IF i > Len(query) THEN <<>>
    ELSE (IF \E j \in 1..(i - 1) : query[j][1] = query[i][1]
          THEN <<>>
          ELSE << <<query[i][1], Get(query, query[i][1], None)>> >>)
         \o DictFrom(query, i + 1)

QueryDict(query) == DictFrom(query, 1)

\* params after params.pop("hash", None)
RECURSIVE WithoutHash(_)
WithoutHash(d) ==
    IF d = <<>> THEN <<>>
    ELSE (IF Head(d)[1] = N_hash THEN <<>> ELSE <<Head(d)>>) \o WithoutHash(Tail(d))

\* d with the item at position k removed
DropAt(d, k) == [i \in 1..(Len(d) - 1) |-> IF i < k THEN d[i] ELSE d[i + 1]]

\* sorted(params.items(), key=lambda x: x[0])
RECURSIVE SortedItems(_)
SortedItems(d) ==
    IF d = <<>> THEN <<>>
    ELSE LET k == CHOOSE i \in 1..Len(d) :
                    \A j \in 1..Len(d) : j = i \/ StrLess(d[i][1], d[j][1])
         IN  <<d[k]>> \o SortedItems(DropAt(d, k))

Values(items) == [i \in 1..Len(items) |-> items[i][2]]

\* a signature over the values in the order the parameters arrived
SignBaseUnsorted(params, secret) == Join(NP, Values(params) \o <<secret>>)

\* "{np}".join([v for _, v in sorted(params.items(), ...)] + [secret])
SignBase(params, secret) == Join(NP, Values(SortedItems(params)) \o <<secret>>)

\* hashlib.sha256(base.encode()).hexdigest(), taken as collision-free: the
\* digest is the tagged preimage
Sha256Hex(base) == <<"sha256:">> \o base

CalcHash(params, secret) == Sha256Hex(SignBase(params, secret))

-----------------------------------------------------------------------------
(* Payment-confirmation webhook: GET /webhook                              *)

V_success == <<"s", "u", "c", "c", "e", "s", "s">>
V_fail    == <<"f", "a", "i", "l">>
V_RUB     == <<"R", "U", "B">>
V_USD     == <<"U", "S", "D">>
V_USDT    == <<"U", "S", "D", "T">>
V_EUR     == <<"E", "U", "R">>

\* f"{val/100:.2f}" for an int val
Fmt2(val) ==
    LET a == IF val < 0 THEN 0 - val ELSE val
    IN  (IF val < 0 THEN <<"-">> ELSE <<>>)
        \o NatToStr(a \div 100) \o <<".">>
        \o <<Digits[((a % 100) \div 10) + 1], Digits[(a % 10) + 1]>>

\* a conversion that divides by 100 whatever the currency
minor_to_human_every_currency(x, cur) ==
    LET val == ParseInt(x)
    IN  IF ~val.ok THEN x ELSE Fmt2(val.val)

minor_to_human(x, cur) ==
    LET val == ParseInt(x)
    IN  IF ~val.ok THEN x
        ELSE IF cur \in {V_RUB, V_USD, V_USDT} THEN Fmt2(val.val)
        ELSE IntToStr(val.val)

\* the confirmation text; the Russian literals are written in Latin letters
ConfirmText(amount_human, amount_cur, profit_human, profit_cur) ==
    IF profit_human \notin {None, <<>>} /\ profit_cur \notin {None, <<>>}
    THEN <<"OK Oplata podtverzhdena. Summa: ">> \o amount_human \o <<" ">>
         \o amount_cur \o <<" (na schet: ">> \o profit_human \o <<" ">>
         \o profit_cur \o <<")">>
    ELSE <<"OK Oplata podtverzhdena. Summa: ">> \o amount_human \o <<" ">>
         \o amount_cur

HttpError(code, detail) ==
    [status |-> code, detail |-> detail, calls |-> {}]

\* a handler that sends the confirmation whatever the result field says
nicepay_webhook_any_result(query) ==
    LET all           == QueryDict(query)
        received_hash == Get(all, N_hash, None)
        params        == WithoutHash(all)
        order_id      == Get(params, N_order_id, <<>>)
        bot_key       == HookBotKey(order_id)
        chat_id       == HookChatId(order_id)
        amount_cur    == Get(params, N_amount_currency, <<>>)
    IN  IF received_hash \in {None, <<>>}
        THEN HttpError(400, "hash missing")
        ELSE IF bot_key \in {None, <<>>} \/ bot_key \notin DOMAIN SECRET_KEYS
        THEN HttpError(400, "unknown bot_key in order_id")
        ELSE IF CalcHash(params, SECRET_KEYS[bot_key]) /= received_hash
        THEN HttpError(400, "bad hash")
        ELSE [status |-> 200, detail |-> "",
              calls  |-> IF chat_id.ok /\ bot_key \in bots
                         THEN {[bot |-> bot_key, chat |-> chat_id.val,
                                text |-> ConfirmText(
                                    minor_to_human(Get(params, N_amount, <<"0">>),
                                                   amount_cur),
                                    amount_cur, None, None)]}
                         ELSE {}]

\* a handler that looks for the tenant before it looks for the hash
nicepay_webhook_tenant_first(query) ==
    LET all           == QueryDict(query)
        received_hash == Get(all, N_hash, None)
        params        == WithoutHash(all)
        order_id      == Get(params, N_order_id, <<>>)
        bot_key       == HookBotKey(order_id)
        chat_id       == HookChatId(order_id)
        amount_cur    == Get(params, N_amount_currency, <<>>)
    IN  IF bot_key \in {None, <<>>} \/ bot_key \notin DOMAIN SECRET_KEYS
        THEN HttpError(400, "unknown bot_key in order_id")
        ELSE IF received_hash \in {None, <<>>}
        THEN HttpError(400, "hash missing")
        ELSE IF CalcHash(params, SECRET_KEYS[bot_key]) /= received_hash
        THEN HttpError(400, "bad hash")
        ELSE [status |-> 200, detail |-> "",
              calls  |-> IF Get(params, N_result, None) = V_success
                            /\ chat_id.ok /\ bot_key \in bots
                         THEN {[bot |-> bot_key, chat |-> chat_id.val,
                                text |-> ConfirmText(
                                    minor_to_human(Get(params, N_amount, <<"0">>),
                                                   amount_cur),
                                    amount_cur, None, None)]}
                         ELSE {}]

\* a handler that sends the confirmation without comparing the signature
nicepay_webhook_unsigned(query) ==
    LET all           == QueryDict(query)
        params        == WithoutHash(all)
        order_id      == Get(params, N_order_id, <<>>)
        bot_key       == HookBotKey(order_id)
        chat_id       == HookChatId(order_id)
        amount_cur    == Get(params, N_amount_currency, <<>>)
    IN  IF bot_key \in {None, <<>>} \/ bot_key \notin DOMAIN SECRET_KEYS
        THEN HttpError(400, "unknown bot_key in order_id")
        ELSE [status |-> 200, detail |-> "",
              calls  |-> IF Get(params, N_result, None) = V_success
                            /\ chat_id.ok /\ bot_key \in bots
                         THEN {[bot |-> bot_key, chat |-> chat_id.val,
                                text |-> ConfirmText(
                                    minor_to_human(Get(params, N_amount, <<"0">>),
                                                   amount_cur),
                                    amount_cur, None, None)]}
                         ELSE {}]

\* the handler on one query string: the HTTP status it ends with, the
\* HTTPException detail ("" when none is raised) and the Bot API calls it makes
nicepay_webhook(query) ==
    LET all           == QueryDict(query)
        received_hash == Get(all, N_hash, None)
        params        == WithoutHash(all)
        order_id      == Get(params, N_order_id, <<>>)
        bot_key       == HookBotKey(order_id)
    IN  IF received_hash \in {None, <<>>}
        THEN HttpError(400, "hash missing")
        ELSE IF bot_key \in {None, <<>>} \/ bot_key \notin DOMAIN SECRET_KEYS
        THEN HttpError(400, "unknown bot_key in order_id")
        ELSE IF CalcHash(params, SECRET_KEYS[bot_key]) /= received_hash
        THEN HttpError(400, "bad hash")
        ELSE
        LET result       == Get(params, N_result, None)
            amount_str   == Get(params, N_amount, <<"0">>)
            amount_cur   == Get(params, N_amount_currency, <<>>)
            profit_str   == Get(params, N_profit, None)
            profit_cur   == Get(params, N_profit_currency, None)
            amount_human == minor_to_human(amount_str, amount_cur)
            profit_human == IF profit_str /= None
                            THEN minor_to_human(profit_str, profit_cur)
                            ELSE None
            chat_id      == HookChatId(order_id)
        IN  [status |-> 200, detail |-> "",
             calls  |-> IF result = V_success /\ chat_id.ok /\ bot_key \in bots
                        THEN {[bot |-> bot_key, chat |-> chat_id.val,
                               text |-> ConfirmText(amount_human, amount_cur,
                                                    profit_human, profit_cur)]}
                        ELSE {}]

-----------------------------------------------------------------------------
(* create_payment_core                                                     *)

\* an argument check that lets every amount through
CoreRejectNoRange(amount, currency) ==
    IF currency \in {V_RUB, V_USD} THEN "" ELSE "Unsupported currency"

\* the argument check at the head of create_payment_core: "" when the call
\* goes on to the processor, else the detail of the HTTPException(400)
CoreReject(amount, currency) ==
    IF currency = V_RUB
    THEN IF amount < 200 \/ amount > 85000
         THEN "Amount must be between 200 and 85000 RUB" ELSE ""
    ELSE IF currency = V_USD
    THEN IF amount < 10 \/ amount > 990
         THEN "Amount must be between 10 and 990 USD" ELSE ""
    ELSE "Unsupported currency"

\* a request that carries the amount in whole units
CoreRequestMajor(bot_key, amount, chat_id, currency, suffix) ==
    [bot_key  |-> bot_key,
     chat_id  |-> chat_id,
     order_id |-> MakeOrderId(bot_key, chat_id, suffix),
     amount   |-> amount,
     currency |-> currency]

\* the request create_payment_core posts (credentials are looked up from the
\* bot_key), together with the chat the call was made for
CoreRequest(bot_key, amount, chat_id, currency, suffix) ==
    [bot_key  |-> bot_key,
     chat_id  |-> chat_id,
     order_id |-> MakeOrderId(bot_key, chat_id, suffix),
     amount   |-> amount * 100,
     currency |-> currency]

\* what the call makes of the processor's answer
\*   "link"   : status success with a link
\*   "nolink" : status success, link missing or empty
\*   "reject" : any other status
\*   "down"   : no parsable answer (connection error, retries used up)
\*   "notobject" : JSON that is not an object, or whose "data" is neither an
\*              object nor empty: .get raises AttributeError outside the try
\*              block, which the caller sees as an error that is no
\*              HTTPException (500 from the route)
CoreResult(req, answer, link) ==
    IF answer = "down"
    THEN [status |-> 502, detail |-> "Nicepay request failed", body |-> <<>>]
    ELSE IF answer = "notobject"
    THEN [status |-> 500, detail |-> "AttributeError", body |-> <<>>]
    ELSE IF answer = "link"
    THEN [status |-> 200, detail |-> "",
          body |-> <<link, req.order_id>>]
    ELSE IF answer = "nolink"
    THEN [status |-> 502, detail |-> "Nicepay success without link", body |-> <<>>]
    ELSE [status |-> 400, detail |-> "Nicepay error", body |-> <<>>]

-----------------------------------------------------------------------------
(* Inputs the environment draws from                                       *)

W_42    == <<"4", "2">>
W_neg5  == <<"-", "5">>
W_500   == <<"5", "0", "0">>
W_100   == <<"1", "0", "0">>
W_abc   == <<"a", "b", "c">>
W_50000 == <<"5", "0", "0", "0", "0">>
W_99999 == <<"9", "9", "9", "9", "9">>

\* what os.urandom(16) gives uuid4, and the suffixes that come of it
Rand_a == [i \in 1..16 |-> 170]
Rand_0 == <<1, 35, 69, 103, 137, 171, 205, 239, 1, 35, 69, 103, 137, 171, 205, 239>>
Rand_f == <<254, 220, 186, 152, 118, 84, 50, 16, 255, 0, 9, 10, 15, 16, 160, 175>>
Rands  == {Rand_a, Rand_0, Rand_f}

Hex_a == Suffix(Rand_a)
Hex_0 == Suffix(Rand_0)

\* chats that write to the bots: an administrator of BASE_WHITELIST, who
\* sends the allow-list commands, and an ordinary user (the chat /add 42
\* names), who sends the rest
Admin == 958579430
User  == ParseInt(W_42).val
Chats == {Admin, User}

\* chat_id values the /create_payment route is called with
RouteChats == {User, ParseInt(W_neg5).val}

\* uuid.uuid4().hex[:8]: two values, so that ids can differ and can collide
Suffixes == {Suffix(Rand_a), Suffix(Rand_0)}

\* the link the processor answers with
Links == {<<"https://pay/x">>}

\* what follows /link, character by character
L_ftp     == <<"f", "t", "p", ":", "/", "/", "u">>
L_https   == <<"h", "t", "t", "p", "s", ":", "/", "/">>
L_http_u  == <<"h", "t", "t", "p", ":", "/", "/", "u">>
L_https_u == L_https \o <<"u">>
L_pay_x   == L_https \o <<"p", "a", "y", "/", "x">>
\* the unit separator U+001F: white space for str.strip() and str.split(),
\* none for int()
US == ""

\* a url and a comment, with a form feed and a unit separator as white space
L_u_c     == L_https_u \o <<"\f", " ", "c", US>>

\* 500 typed with white space around it, and in Devanagari digits with an
\* underscore inside
W_500_sp  == <<US, "5", "0", "0", "\f">>
W_5_00    == <<"\\u096b", "_", "0", "0">>
\* 42 in Devanagari digits after a no-break space
W_42_dev  == <<" ", "\\u096a", "\\u0968">>

\* A Telegram update: kind is the command (or "text" for any other text
\* message, "photo" for a message without text, "callback" for a button),
\* arg what follows the command in message.text (<<>> when nothing does).
\*   text     : arg is the message text
\*   photo    : arg is None, as message.text is
\*   callback : arg is the callback data
Updates ==
    [kind : {"getid", "start"}, chat : {User}, arg : {<<>>}]
    \cup [kind : {"info"}, chat : {User}, arg : {<<>>, <<"t2">>}]
    \cup [kind : {"link"}, chat : {User},
          arg : {<<>>, L_ftp, L_u_c}]
    \cup [kind : {"add", "delete"}, chat : {Admin}, arg : {W_42}]
    \cup [kind : {"text"}, chat : {User}, arg : {W_500, W_abc}]
    \cup [kind : {"callback"}, chat : {User}, arg : {<<"pay_custom">>, <<"wake_up">>}]

-----------------------------------------------------------------------------
(* Message texts                                                           *)

\* f"{amount_int:,}".replace(",", " ") for a non-negative amount
RECURSIVE fmt_rub(_)
fmt_rub(n) ==
    IF n < 1000 THEN NatToStr(n)
    ELSE fmt_rub(n \div 1000) \o <<" ">>
         \o <<Digits[((n % 1000) \div 100) + 1],
              Digits[((n % 100) \div 10) + 1],
              Digits[(n % 10) + 1]>>

\* the link message of handle_custom_amount
AmountLinkText(amt, link) ==
    <<"Ssylka na oplatu (">> \o fmt_rub(amt) \o <<" R):", "\n">> \o link

\* s.startswith(prefix)
StartsWith(s, prefix) ==
    Len(s) >= Len(prefix) /\ SubSeq(s, 1, Len(prefix)) = prefix

\* len(parts) < 2 for parts = message.text.split(maxsplit=1): nothing but
\* white space follows the command
NoLinkArg(arg) == Words(arg) = <<>>

\* url = tail.split()[0] of tail = parts[1].strip()
LinkUrl(arg) == Words(Strip(arg))[1]

\* comment = tail[len(url):].strip()
LinkComment(arg) ==
    LET tail == Strip(arg)
    IN  Strip(SubSeq(tail, Len(LinkUrl(arg)) + 1, Len(tail)))

\* url.startswith("http://") or url.startswith("https://")
IsHttpUrl(url) ==
    \/ StartsWith(url, <<"h", "t", "t", "p", ":", "/", "/">>)
    \/ StartsWith(url, <<"h", "t", "t", "p", "s", ":", "/", "/">>)

\* the message /link writes: the url, and the comment when there is one
SetLinkText(arg) ==
    <<"Ssylka na oplatu:", "\n">> \o LinkUrl(arg)
    \o (IF LinkComment(arg) /= <<>> THEN <<"\n">> \o LinkComment(arg) ELSE <<>>)

\* an annotation that takes the place of the text
InfoTextReplace(base, raw) == IF raw /= <<>> THEN raw ELSE base

\* base + ("\n" + raw if raw else "")
InfoText(base, raw) == base \o (IF raw /= <<>> THEN <<"\n">> \o raw ELSE <<>>)

\* annotations a text already carries (line breaks after the header's)
RECURSIVE Breaks(_)
Breaks(text) ==
    IF text = <<>> THEN 0
    ELSE (IF Head(text) = "\n" THEN 1 ELSE 0) + Breaks(Tail(text))

-----------------------------------------------------------------------------
(* State helpers                                                           *)

Slots == {"u1", "u2"}

Idle == [pc |-> "idle"]

\* the slot an arriving update takes: the first free one
FreeSlot == IF upd["u1"] = Idle THEN "u1" ELSE "u2"

HasFreeSlot == \E i \in Slots : upd[i] = Idle

\* A handler that is partway through (waiting for the Bot API or the
\* processor to answer).  A coroutine that has not started (queued) or that
\* is suspended at await request.body() (body) is in no handler.
InHandler(i) == upd[i].pc \notin {"idle", "queued", "body"}

\* handlers that run on worker threads: a coroutine starts at any time
RunnableThreaded(who) == TRUE

\* tg_webhook and nicepay_webhook are coroutines of one event loop and the bots
\* are built with threaded=False, so process_new_updates runs the handler to
\* its end inside the coroutine: a coroutine starts only when no other is
\* partway through a handler
Runnable(who) == \A j \in Slots \ {who} : ~InHandler(j)

\* a coroutine that is waiting for the loop gets it before a request that
\* arrives later
NoneWaiting == \A j \in Slots : upd[j].pc /= "queued"

\* the next-step handlers telebot holds for the chat: register_next_step_handler
\* appends to a list per chat, so next_step maps a (bot_key, chat_id) that has
\* any to their number
Prompted(bot_key, chat_id) == <<bot_key, chat_id>> \in DOMAIN next_step

Registered(bot_key, chat_id) ==
    IF Prompted(bot_key, chat_id) THEN next_step[<<bot_key, chat_id>>] ELSE 0

\* register_next_step_handler(msg, handle_custom_amount)
Register(bot_key, chat_id) ==
    [p \in (DOMAIN next_step) \cup {<<bot_key, chat_id>>} |->
        IF p = <<bot_key, chat_id>> THEN Registered(bot_key, chat_id) + 1
        ELSE next_step[p]]

\* _notify_next_handlers pops every handler of the chat
PopHandlers(bot_key, chat_id) ==
    IF (DOMAIN next_step) \ {<<bot_key, chat_id>>} = {} THEN <<>>
    ELSE [p \in (DOMAIN next_step) \ {<<bot_key, chat_id>>} |-> next_step[p]]

HasSession(bot_key, chat_id) == chat_id \in DOMAIN last_link_msg[bot_key]

\* last_link_msg[bot_key][chat_id] = session
PutSession(bot_key, chat_id, session) ==
    [last_link_msg EXCEPT ![bot_key] =
        [c \in (DOMAIN @) \cup {chat_id} |->
            IF c = chat_id THEN session ELSE @[c]]]

\* an order_map that is never written
PutOrderSkip(oid, entry) == order_map

\* an order_map entry that loses the chat
PutOrderUnbound(oid, entry) ==
    [o \in (DOMAIN order_map) \cup {oid} |->
        IF o = oid THEN [entry EXCEPT !.chat_id = 0] ELSE order_map[o]]

\* order_map[oid] = entry
PutOrder(oid, entry) ==
    [o \in (DOMAIN order_map) \cup {oid} |->
        IF o = oid THEN entry ELSE order_map[o]]

Call(bot_key, chat_id, what) == [bot |-> bot_key, chat |-> chat_id, what |-> what]

\* the record of a finished step: the route, the bot key it named, the HTTP
\* status, the Bot API calls made, whether a request went to the processor,
\* and whether the session tracker or the allow-lists were written
Effect(op, key, status, calls, np) ==
    [op |-> op, key |-> key, status |-> status, calls |-> calls, np |-> np,
     wrote |-> \/ last_link_msg' /= last_link_msg
               \/ order_map' /= order_map
               \/ DYNAMIC_WHITELISTS' /= DYNAMIC_WHITELISTS]

-----------------------------------------------------------------------------
(* Initial state: after import and the bootstrap loop                      *)

\* load_dynamic_whitelist(k) for every key: empty when there is no file, or
\* what an earlier run of the service saved
SavedWhitelists ==
    {[k \in BOT_KEYS |-> {}],
     [k \in BOT_KEYS |-> IF k = B1 THEN {User} ELSE {}]}

NoEffect == [op |-> "none", key |-> <<>>, status |-> 0, calls |-> {},
             np |-> FALSE, wrote |-> FALSE]

NoPure == [kind |-> "none"]

Init ==
    /\ DYNAMIC_WHITELISTS \in SavedWhitelists
    /\ last_link_msg = [k \in BOT_KEYS |-> <<>>]
    /\ order_map = <<>>
    /\ next_step = <<>>
    /\ upd = [i \in Slots |-> Idle]
    /\ cp = Idle
    /\ msg_seq = 0
    /\ np_reqs = {}
    /\ eff = NoEffect
    /\ pure = NoPure

-----------------------------------------------------------------------------
(* GET /create_payment (a plain def: runs in the thread pool)              *)

\* the route up to the moment create_payment_core posts its request
CreatePaymentStart(bot_key, amount, chat_id, currency, suffix) ==
    /\ cp = Idle
    /\ UNCHANGED <<DYNAMIC_WHITELISTS, last_link_msg, order_map, next_step,
                   upd, msg_seq, pure>>
    /\ IF bot_key = <<>> \/ bot_key \notin bots \/ CoreReject(amount, currency) /= ""
       THEN /\ eff' = Effect("create_payment", bot_key, 400, {}, FALSE)
                      @@ [amount |-> amount, currency |-> currency]
            /\ UNCHANGED <<cp, np_reqs>>
       ELSE LET req == CoreRequest(bot_key, amount, chat_id, currency, suffix)
            IN  /\ req \in np_reqs \/ Cardinality(np_reqs) < MaxReqs
                /\ np_reqs' = np_reqs \cup {req}
                /\ cp' = [pc |-> "core", req |-> req]
                /\ eff' = Effect("create_payment_post", bot_key, 0, {}, TRUE)
                          @@ [amount |-> amount, currency |-> currency]

\* the processor's answer arrives and the route returns
CreatePaymentFinish(answer, link) ==
    /\ cp /= Idle
    /\ cp' = Idle
    /\ UNCHANGED <<DYNAMIC_WHITELISTS, last_link_msg, order_map, next_step,
                   upd, msg_seq, np_reqs, pure>>
    /\ LET res == CoreResult(cp.req, answer, link)
       IN  eff' = Effect("create_payment", cp.req.bot_key, res.status, {}, FALSE)
                  @@ [body |-> res.body, req |-> cp.req]

-----------------------------------------------------------------------------
(* POST /tg-webhook/{bot_key}: the handlers attach_handlers registers      *)

\* the coroutine returns {"ok": True}, having made these Bot API calls
Reply(i, bot_key, calls) ==
    /\ upd' = [upd EXCEPT ![i] = Idle]
    /\ eff' = Effect("tg_webhook", bot_key, 200, calls, FALSE)

\* the handler is left waiting for an answer from outside
Wait(i, bot_key, ctx, calls, np) ==
    /\ upd' = [upd EXCEPT ![i] = ctx]
    /\ eff' = Effect("tg_webhook_wait", bot_key, 0, calls, np)

\* an /info that opens an empty session for a chat that has none
info_blank_session(i, bot_key, u) ==
    /\ UNCHANGED <<DYNAMIC_WHITELISTS, order_map, next_step, msg_seq, np_reqs>>
    /\ IF ~has_access(bot_key, u.chat)
       THEN /\ UNCHANGED last_link_msg
            /\ Reply(i, bot_key, {Call(bot_key, u.chat, "no_access")})
       ELSE IF ~HasSession(bot_key, u.chat)
       THEN /\ last_link_msg' =
                 PutSession(bot_key, u.chat,
                            [message_id |-> 0, order_id |-> <<>>, base_text |-> u.arg])
            /\ Reply(i, bot_key, {Call(bot_key, u.chat, "edit")})
       ELSE /\ UNCHANGED last_link_msg
            /\ LET session == last_link_msg[bot_key][u.chat]
                   raw     == Strip(u.arg)
               IN  /\ raw = <<>> \/ Breaks(session.base_text) <= MaxAppend
                   /\ Wait(i, bot_key,
                           [pc |-> "info_edit", bot_key |-> bot_key, chat |-> u.chat,
                            message_id |-> session.message_id,
                            base |-> session.base_text,
                            text |-> InfoText(session.base_text, raw)],
                           {Call(bot_key, u.chat, "edit")}, FALSE)

info(i, bot_key, u) ==
    /\ UNCHANGED <<DYNAMIC_WHITELISTS, last_link_msg, order_map, next_step,
                   msg_seq, np_reqs>>
    /\ IF ~has_access(bot_key, u.chat)
       THEN Reply(i, bot_key, {Call(bot_key, u.chat, "no_access")})
       ELSE IF ~HasSession(bot_key, u.chat)
       THEN Reply(i, bot_key, {Call(bot_key, u.chat, "no_session")})
       ELSE LET session == last_link_msg[bot_key][u.chat]
                raw     == Strip(u.arg)
            IN  /\ raw = <<>> \/ Breaks(session.base_text) <= MaxAppend
                /\ Wait(i, bot_key,
                        [pc |-> "info_edit", bot_key |-> bot_key, chat |-> u.chat,
                         message_id |-> session.message_id,
                         base |-> session.base_text,
                         text |-> InfoText(session.base_text, raw)],
                        {Call(bot_key, u.chat, "edit")}, FALSE)

\* an /info that stores the new text whether or not the edit went through
InfoFinishAlways(i, ok) ==
    /\ upd[i].pc = "info_edit"
    /\ last_link_msg' =
          [last_link_msg EXCEPT ![upd[i].bot_key][upd[i].chat].base_text = upd[i].text]
    /\ UNCHANGED <<DYNAMIC_WHITELISTS, order_map, next_step, msg_seq, np_reqs,
                   cp, pure>>
    /\ Reply(i, upd[i].bot_key,
             IF ok THEN {} ELSE {Call(upd[i].bot_key, upd[i].chat, "edit_error")})

\* edit_message_text returns (ok) or raises
InfoFinish(i, ok) ==
    /\ upd[i].pc = "info_edit"
    /\ last_link_msg' =
          IF ok THEN [last_link_msg EXCEPT
                        ![upd[i].bot_key][upd[i].chat].base_text = upd[i].text]
          ELSE last_link_msg
    /\ UNCHANGED <<DYNAMIC_WHITELISTS, order_map, next_step, msg_seq, np_reqs,
                   cp, pure>>
    /\ Reply(i, upd[i].bot_key,
             IF ok THEN {} ELSE {Call(upd[i].bot_key, upd[i].chat, "edit_error")})

set_link(i, bot_key, u) ==
    /\ UNCHANGED <<DYNAMIC_WHITELISTS, last_link_msg, order_map, next_step,
                   msg_seq, np_reqs>>
    /\ IF ~has_access(bot_key, u.chat)
       THEN Reply(i, bot_key, {Call(bot_key, u.chat, "no_access")})
       ELSE IF NoLinkArg(u.arg)
       THEN Reply(i, bot_key, {Call(bot_key, u.chat, "usage")})
       ELSE IF ~IsHttpUrl(LinkUrl(u.arg))
       THEN Reply(i, bot_key, {Call(bot_key, u.chat, "bad_url")})
       ELSE Wait(i, bot_key,
                 [pc |-> "link_api", bot_key |-> bot_key, chat |-> u.chat,
                  edit |-> HasSession(bot_key, u.chat),
                  text |-> SetLinkText(u.arg)],
                 {Call(bot_key, u.chat,
                       IF HasSession(bot_key, u.chat) THEN "edit" ELSE "link_msg")},
                 FALSE)

\* how the try block of set_link can end: every call returns (ok); the edit
\* or the send of the link message raises (api_error); or the session is
\* written and the send of the notice raises (notice_error)
LinkOutcomes == {"ok", "api_error", "notice_error"}

\* the Bot API calls of set_link after the edit or send of the link message
LinkNotices(b, c, out) ==
    (IF out /= "api_error" THEN {Call(b, c, "link_updated")} ELSE {})
    \cup (IF out /= "ok" THEN {Call(b, c, "link_error")} ELSE {})

\* a /link that always sends a new message and opens a new session for it
LinkFinishNewMessage(i, out) ==
    /\ upd[i].pc = "link_api"
    /\ LET b == upd[i].bot_key
           c == upd[i].chat
       IN  /\ IF out = "api_error"
              THEN UNCHANGED <<last_link_msg, msg_seq>>
              ELSE /\ msg_seq < MaxMsgId
                   /\ msg_seq' = msg_seq + 1
                   /\ last_link_msg' =
                        PutSession(b, c, [message_id |-> msg_seq + 1,
                                          order_id   |-> <<>>,
                                          base_text  |-> upd[i].text])
           /\ UNCHANGED <<DYNAMIC_WHITELISTS, order_map, next_step, np_reqs,
                          cp, pure>>
           /\ Reply(i, b, LinkNotices(b, c, out))

\* the rest of set_link, from the answer to its edit or send
LinkFinish(i, out) ==
    /\ upd[i].pc = "link_api"
    /\ LET b == upd[i].bot_key
           c == upd[i].chat
       IN  /\ IF out = "api_error"
              THEN UNCHANGED <<last_link_msg, msg_seq>>
              ELSE IF upd[i].edit
              THEN /\ last_link_msg' =
                        [last_link_msg EXCEPT ![b][c].base_text = upd[i].text]
                   /\ UNCHANGED msg_seq
              ELSE /\ msg_seq < MaxMsgId
                   /\ msg_seq' = msg_seq + 1
                   /\ last_link_msg' =
                        PutSession(b, c, [message_id |-> msg_seq + 1,
                                          order_id   |-> <<>>,
                                          base_text  |-> upd[i].text])
           /\ UNCHANGED <<DYNAMIC_WHITELISTS, order_map, next_step, np_reqs,
                          cp, pure>>
           /\ Reply(i, b, LinkNotices(b, c, out))

\* parts = message.text.strip().split(): the words after the command are
\* Words(u.arg), and len(parts) == 2 when there is one
add_user(i, bot_key, u) ==
    /\ UNCHANGED <<last_link_msg, order_map, next_step, msg_seq, np_reqs>>
    /\ IF u.chat \notin BASE_WHITELIST
       THEN /\ UNCHANGED DYNAMIC_WHITELISTS
            /\ Reply(i, bot_key, {Call(bot_key, u.chat, "no_rights")})
       ELSE IF Len(Words(u.arg)) /= 1 \/ ~isdigit(Words(u.arg)[1])
       THEN /\ UNCHANGED DYNAMIC_WHITELISTS
            /\ Reply(i, bot_key, {Call(bot_key, u.chat, "usage")})
       ELSE IF ~ParseInt(Words(u.arg)[1]).ok
       THEN \* int() raises ValueError, which tg_webhook catches
            /\ UNCHANGED DYNAMIC_WHITELISTS
            /\ Reply(i, bot_key, {})
       ELSE /\ DYNAMIC_WHITELISTS' =
                 [DYNAMIC_WHITELISTS EXCEPT ![bot_key] = @ \cup {ParseInt(Words(u.arg)[1]).val}]
            /\ Reply(i, bot_key, {Call(bot_key, u.chat, "added")})

\* a /delete that takes the chat off every tenant's allow-list
delete_user_everywhere(i, bot_key, u) ==
    /\ UNCHANGED <<last_link_msg, order_map, next_step, msg_seq, np_reqs>>
    /\ IF u.chat \notin BASE_WHITELIST
       THEN /\ UNCHANGED DYNAMIC_WHITELISTS
            /\ Reply(i, bot_key, {Call(bot_key, u.chat, "no_rights")})
       ELSE IF Len(Words(u.arg)) /= 1 \/ ~isdigit(Words(u.arg)[1])
       THEN /\ UNCHANGED DYNAMIC_WHITELISTS
            /\ Reply(i, bot_key, {Call(bot_key, u.chat, "usage")})
       ELSE IF ~ParseInt(Words(u.arg)[1]).ok
       THEN \* int() raises ValueError, which tg_webhook catches
            /\ UNCHANGED DYNAMIC_WHITELISTS
            /\ Reply(i, bot_key, {})
       ELSE IF ParseInt(Words(u.arg)[1]).val \in DYNAMIC_WHITELISTS[bot_key]
       THEN /\ DYNAMIC_WHITELISTS' =
                 [k \in DOMAIN DYNAMIC_WHITELISTS |->
                     DYNAMIC_WHITELISTS[k] \ {ParseInt(Words(u.arg)[1]).val}]
            /\ Reply(i, bot_key, {Call(bot_key, u.chat, "deleted")})
       ELSE /\ UNCHANGED DYNAMIC_WHITELISTS
            /\ Reply(i, bot_key, {Call(bot_key, u.chat, "not_listed")})

delete_user(i, bot_key, u) ==
    /\ UNCHANGED <<last_link_msg, order_map, next_step, msg_seq, np_reqs>>
    /\ IF u.chat \notin BASE_WHITELIST
       THEN /\ UNCHANGED DYNAMIC_WHITELISTS
            /\ Reply(i, bot_key, {Call(bot_key, u.chat, "no_rights")})
       ELSE IF Len(Words(u.arg)) /= 1 \/ ~isdigit(Words(u.arg)[1])
       THEN /\ UNCHANGED DYNAMIC_WHITELISTS
            /\ Reply(i, bot_key, {Call(bot_key, u.chat, "usage")})
       ELSE IF ~ParseInt(Words(u.arg)[1]).ok
       THEN \* int() raises ValueError, which tg_webhook catches
            /\ UNCHANGED DYNAMIC_WHITELISTS
            /\ Reply(i, bot_key, {})
       ELSE IF ParseInt(Words(u.arg)[1]).val \in DYNAMIC_WHITELISTS[bot_key]
       THEN /\ DYNAMIC_WHITELISTS' =
                 [DYNAMIC_WHITELISTS EXCEPT ![bot_key] = @ \ {ParseInt(Words(u.arg)[1]).val}]
            /\ Reply(i, bot_key, {Call(bot_key, u.chat, "deleted")})
       ELSE /\ UNCHANGED DYNAMIC_WHITELISTS
            /\ Reply(i, bot_key, {Call(bot_key, u.chat, "not_listed")})

getid(i, bot_key, u) ==
    /\ UNCHANGED <<DYNAMIC_WHITELISTS, last_link_msg, order_map, next_step,
                   msg_seq, np_reqs>>
    /\ Reply(i, bot_key, {Call(bot_key, u.chat, "chat_id")})

start(i, bot_key, u) ==
    /\ UNCHANGED <<DYNAMIC_WHITELISTS, last_link_msg, order_map, next_step,
                   msg_seq, np_reqs>>
    /\ Reply(i, bot_key,
             {Call(bot_key, u.chat,
                   IF has_access(bot_key, u.chat) THEN "menu" ELSE "no_access")})

\* a button press.  For pay_custom the prompt is sent and, when the send
\* returned, one more next-step handler is registered for the chat; when it
\* raised, none is.
callback(i, bot_key, u) ==
    /\ UNCHANGED <<DYNAMIC_WHITELISTS, last_link_msg, order_map, msg_seq, np_reqs>>
    /\ IF has_access(bot_key, u.chat) /\ u.arg = <<"pay_custom">>
       THEN /\ \E sent \in BOOLEAN :
                 IF sent
                 THEN /\ Registered(bot_key, u.chat) < MaxPrompts
                      /\ next_step' = Register(bot_key, u.chat)
                 ELSE UNCHANGED next_step
            /\ Reply(i, bot_key, {Call(bot_key, u.chat, "answer"),
                                  Call(bot_key, u.chat, "amount_prompt")})
       ELSE /\ UNCHANGED next_step
            /\ Reply(i, bot_key, {Call(bot_key, u.chat, "answer")})

\* int(message.text.strip()): a command begins with a slash and is no integer
AmountOf(u) ==
    IF u.kind = "text" THEN ParseInt(Strip(u.arg)) ELSE [ok |-> FALSE, val |-> 0]

\* message.text is None (a photo, a sticker): message.text.strip() raises
\* AttributeError
NoText(u) == u.kind = "photo"

\* the calls of a run that finds the amount outside the limits: the notice,
\* and the error message when the send of the notice raised inside the try
\* block
LimitNotices(bot_key, chat_id, sent) ==
    {Call(bot_key, chat_id, "out_of_limits")}
    \cup (IF sent THEN {} ELSE {Call(bot_key, chat_id, "payment_error")})

\* a handler run that returns at once.  The message goes to every handler
\* registered for the chat, one after the other: each of the runs makes the
\* same calls.
ReplyRuns(i, bot_key, calls, runs) ==
    /\ upd' = [upd EXCEPT ![i] = Idle]
    /\ eff' = Effect("tg_webhook", bot_key, 200, calls, FALSE) @@ [runs |-> runs]

\* an amount handler that relies on the access check made at the prompt
handle_custom_amount_unchecked(i, bot_key, u, runs) ==
    /\ UNCHANGED <<DYNAMIC_WHITELISTS, last_link_msg, order_map, msg_seq>>
    /\ LET amt == AmountOf(u)
       IN  IF NoText(u)
           THEN /\ UNCHANGED np_reqs
                /\ ReplyRuns(i, bot_key, {Call(bot_key, u.chat, "payment_error")}, runs)
           ELSE IF ~amt.ok
           THEN /\ UNCHANGED np_reqs
                /\ ReplyRuns(i, bot_key, {Call(bot_key, u.chat, "not_integer")}, runs)
           ELSE IF amt.val < 200 \/ amt.val > 85000
           THEN /\ UNCHANGED np_reqs
                /\ \E sent \in BOOLEAN :
                      ReplyRuns(i, bot_key, LimitNotices(bot_key, u.chat, sent), runs)
           ELSE \E suffix \in Suffixes :
                LET req == CoreRequest(bot_key, amt.val, u.chat, V_RUB, suffix)
                IN  /\ req \in np_reqs \/ Cardinality(np_reqs) < MaxReqs
                    /\ np_reqs' = np_reqs \cup {req}
                    /\ Wait(i, bot_key,
                            [pc |-> "amount_core", bot_key |-> bot_key,
                             chat |-> u.chat, amt |-> amt.val, req |-> req,
                             left |-> runs - 1],
                            {}, TRUE)

\* the message of a prompted chat in the first of the handlers registered for
\* it (runs of them), up to the request to the processor
handle_custom_amount(i, bot_key, u, runs) ==
    /\ UNCHANGED <<DYNAMIC_WHITELISTS, last_link_msg, order_map, msg_seq>>
    /\ LET amt == AmountOf(u)
       IN  IF ~has_access(bot_key, u.chat)
           THEN /\ UNCHANGED np_reqs
                /\ ReplyRuns(i, bot_key, {Call(bot_key, u.chat, "no_access")}, runs)
           ELSE IF NoText(u)
           THEN /\ UNCHANGED np_reqs
                /\ ReplyRuns(i, bot_key, {Call(bot_key, u.chat, "payment_error")}, runs)
           ELSE IF ~amt.ok
           THEN /\ UNCHANGED np_reqs
                /\ ReplyRuns(i, bot_key, {Call(bot_key, u.chat, "not_integer")}, runs)
           ELSE IF amt.val < 200 \/ amt.val > 85000
           THEN /\ UNCHANGED np_reqs
                /\ \E sent \in BOOLEAN :
                      ReplyRuns(i, bot_key, LimitNotices(bot_key, u.chat, sent), runs)
           ELSE IF CoreReject(amt.val, V_RUB) /= ""
           THEN /\ UNCHANGED np_reqs
                /\ ReplyRuns(i, bot_key, {Call(bot_key, u.chat, "payment_error")}, runs)
           ELSE \E suffix \in Suffixes :
                LET req == CoreRequest(bot_key, amt.val, u.chat, V_RUB, suffix)
                IN  /\ req \in np_reqs \/ Cardinality(np_reqs) < MaxReqs
                    /\ np_reqs' = np_reqs \cup {req}
                    /\ Wait(i, bot_key,
                            [pc |-> "amount_core", bot_key |-> bot_key,
                             chat |-> u.chat, amt |-> amt.val, req |-> req,
                             left |-> runs - 1],
                            {}, TRUE)

\* a handler run ends with the calls it made, and the coroutine returns
AmountReturns(i, calls, status) ==
    /\ UNCHANGED np_reqs
    /\ upd' = [upd EXCEPT ![i] = Idle]
    /\ eff' = Effect("tg_webhook", upd[i].bot_key, 200, calls, FALSE)
              @@ [req |-> upd[i].req, core |-> status]

\* a handler run ends with the calls it made.  When no other handler is
\* registered for the message the coroutine returns.  It also returns when
\* the run ended in its except branch and the send of the error message
\* raised: the exception leaves process_new_updates and tg_webhook catches
\* it.  Otherwise the next handler takes the same message: it checks the
\* access again and, the amount being the one that passed, sends its own
\* request to the processor and waits.
AmountRunEnds(i, calls, status) ==
    LET b == upd[i].bot_key
        c == upd[i].chat
    IN  IF upd[i].left = 0
        THEN AmountReturns(i, calls, status)
        ELSE \/ /\ Call(b, c, "payment_error") \in calls
                /\ AmountReturns(i, calls, status)
             \/ IF ~has_access(b, c)
                THEN AmountReturns(i, calls \cup {Call(b, c, "no_access")}, status)
                ELSE \E suffix \in Suffixes :
                     LET req == CoreRequest(b, upd[i].amt, c, V_RUB, suffix)
                     IN  /\ req \in np_reqs \/ Cardinality(np_reqs) < MaxReqs
                         /\ np_reqs' = np_reqs \cup {req}
                         /\ upd' = [upd EXCEPT ![i] =
                                      [@ EXCEPT !.req = req, !.left = upd[i].left - 1]]
                         /\ eff' = Effect("tg_webhook_wait", b, 0, calls, TRUE)
                                   @@ [req |-> upd[i].req, core |-> status]

\* a handler that records the session as soon as the link is there, before
\* the link message is sent
AmountFinishEager(i, answer, link, tg_ok) ==
    /\ upd[i].pc = "amount_core"
    /\ LET b   == upd[i].bot_key
           c   == upd[i].chat
           res == CoreResult(upd[i].req, answer, link)
           oid == res.body[2]
       IN  /\ IF res.status /= 200
              THEN UNCHANGED <<last_link_msg, order_map, msg_seq>>
              ELSE /\ msg_seq < MaxMsgId
                   /\ msg_seq' = msg_seq + 1
                   /\ last_link_msg' =
                        PutSession(b, c, [message_id |-> msg_seq + 1,
                                          order_id   |-> oid,
                                          base_text  |-> AmountLinkText(upd[i].amt,
                                                                        res.body[1])])
                   /\ order_map' =
                        PutOrder(oid, [bot_key |-> b, chat_id |-> c,
                                       message_id |-> msg_seq + 1])
           /\ UNCHANGED <<DYNAMIC_WHITELISTS, next_step, cp, pure>>
           /\ AmountRunEnds(i, (IF res.status = 200
                                THEN {Call(b, c, "link_msg")} ELSE {})
                               \cup (IF res.status /= 200 \/ ~tg_ok
                                     THEN {Call(b, c, "payment_error")} ELSE {}),
                            res.status)

\* the processor's answer arrives; on a link the message is sent (tg_ok) or
\* send_message raises, and only then are the two maps written
AmountFinish(i, answer, link, tg_ok) ==
    /\ upd[i].pc = "amount_core"
    /\ LET b   == upd[i].bot_key
           c   == upd[i].chat
           res == CoreResult(upd[i].req, answer, link)
           oid == res.body[2]
       IN  /\ IF res.status /= 200 \/ ~tg_ok
              THEN UNCHANGED <<last_link_msg, order_map, msg_seq>>
              ELSE /\ msg_seq < MaxMsgId
                   /\ msg_seq' = msg_seq + 1
                   /\ last_link_msg' =
                        PutSession(b, c, [message_id |-> msg_seq + 1,
                                          order_id   |-> oid,
                                          base_text  |-> AmountLinkText(upd[i].amt,
                                                                        res.body[1])])
                   /\ order_map' =
                        PutOrder(oid, [bot_key |-> b, chat_id |-> c,
                                       message_id |-> msg_seq + 1])
           /\ UNCHANGED <<DYNAMIC_WHITELISTS, next_step, cp, pure>>
           /\ AmountRunEnds(i, (IF res.status = 200
                                THEN {Call(b, c, "link_msg")} ELSE {})
                               \cup (IF res.status /= 200 \/ ~tg_ok
                                     THEN {Call(b, c, "payment_error")} ELSE {}),
                            res.status)

\* the two gates of the coroutine: the bot_key is a configured one, and the
\* secret token of the header is the expected one when one is configured
TgGatesPass(bot_key, header) ==
    /\ bot_key \in bots
    /\ TG_WEBHOOK_SECRETS[bot_key] = <<>> \/ header = TG_WEBHOOK_SECRETS[bot_key]

\* bots[bot_key].process_new_updates([update]): a message of a chat that has
\* next-step handlers goes to them and they are forgotten; any other update
\* goes to the handler of its command
process_new_updates(i, bot_key, u) ==
    IF u.kind /= "callback" /\ Prompted(bot_key, u.chat)
    THEN /\ next_step' = PopHandlers(bot_key, u.chat)
         /\ handle_custom_amount(i, bot_key, u, Registered(bot_key, u.chat))
    ELSE CASE u.kind = "getid"    -> getid(i, bot_key, u)
           [] u.kind = "info"     -> info(i, bot_key, u)
           [] u.kind = "link"     -> set_link(i, bot_key, u)
           [] u.kind = "add"      -> add_user(i, bot_key, u)
           [] u.kind = "delete"   -> delete_user(i, bot_key, u)
           [] u.kind = "start"    -> start(i, bot_key, u)
           [] u.kind = "callback" -> callback(i, bot_key, u)
           [] OTHER ->
                 /\ UNCHANGED <<DYNAMIC_WHITELISTS, last_link_msg, order_map,
                                next_step, msg_seq, np_reqs>>
                 /\ Reply(i, bot_key, {})

\* the coroutine from its first line to its return, when the body of the
\* request is there by the time it is awaited: the gates, then the handler
tg_webhook(i, bot_key, header, u) ==
    /\ Runnable(i)
    /\ UNCHANGED <<cp, pure>>
    /\ IF ~TgGatesPass(bot_key, header)
       THEN /\ UNCHANGED <<DYNAMIC_WHITELISTS, last_link_msg, order_map,
                           next_step, msg_seq, np_reqs>>
            /\ Reply(i, bot_key, {})
       ELSE process_new_updates(i, bot_key, u)

\* the coroutine from its first line to await request.body(), when the body
\* is still on its way: the gates pass and the coroutine is suspended, which
\* leaves the event loop to the other coroutines
tg_webhook_gates(i, bot_key, header, u) ==
    /\ Runnable(i)
    /\ TgGatesPass(bot_key, header)
    /\ upd' = [upd EXCEPT ![i] =
                 [pc |-> "body", bot_key |-> bot_key, update |-> u]]
    /\ UNCHANGED <<DYNAMIC_WHITELISTS, last_link_msg, order_map, next_step,
                   cp, msg_seq, np_reqs, eff, pure>>

\* the coroutine from await request.body() to its return
tg_webhook_body(i) ==
    /\ Runnable(i)
    /\ UNCHANGED <<cp, pure>>
    /\ process_new_updates(i, upd[i].bot_key, upd[i].update)

\* an update that arrives and is handled at once
TgUpdate(bot_key, header, u) ==
    /\ HasFreeSlot
    /\ NoneWaiting
    /\ tg_webhook(FreeSlot, bot_key, header, u)

\* an annotation command that arrives while the event loop is inside a
\* handler: its coroutine has to wait
TgArrive(bot_key, u) ==
    /\ HasFreeSlot
    /\ \E j \in Slots : InHandler(j)
    /\ upd' = [upd EXCEPT ![FreeSlot] =
                 [pc |-> "queued", bot_key |-> bot_key,
                  header |-> TG_WEBHOOK_SECRETS[bot_key], update |-> u]]
    /\ UNCHANGED <<DYNAMIC_WHITELISTS, last_link_msg, order_map, next_step,
                   cp, msg_seq, np_reqs, eff, pure>>

\* an update that arrives and whose coroutine is suspended for the body
TgSuspend(bot_key, header, u) ==
    /\ HasFreeSlot
    /\ NoneWaiting
    /\ tg_webhook_gates(FreeSlot, bot_key, header, u)

\* a waiting update gets the event loop and is handled, or is suspended for
\* its body
TgResume(i) ==
    /\ upd[i].pc = "queued"
    /\ \/ tg_webhook(i, upd[i].bot_key, upd[i].header, upd[i].update)
       \/ tg_webhook_gates(i, upd[i].bot_key, upd[i].header, upd[i].update)

\* the body of a suspended update is there and its coroutine gets the event
\* loop
TgBody(i) ==
    /\ upd[i].pc = "body"
    /\ tg_webhook_body(i)

-----------------------------------------------------------------------------
(* GET /webhook: the requests that arrive                                  *)

\* order ids that no create_payment_core call needs to have produced
CraftedOrderIds ==
    { B1,                                               \* no dash at all
      B1 \o <<"-">> \o W_42,                            \* two fields only
      B1 \o <<"-", "x", "-">> \o Hex_a,                 \* chat field not a number
      B1 \o <<"-", "\f", "\\u096a", "_", "2", "-">> \o Hex_a,
                                          \* int() reads form feed, U+096A, _, 2 as 42
      MakeOrderId(BX, User, Hex_a),
      MakeOrderId(B3, User, Hex_a),
      MakeOrderId(B2, User, Hex_a) }

\* The sender signs order_id, result, amount and amount_currency with the
\* secret it holds.  What arrives is what was signed, or the same with the
\* amount altered on the way (tampered), with the hash or without it.
WebhookQuery(order_id, result, secret, tampered, with_hash) ==
    LET signed == << <<N_result, result>>, <<N_order_id, order_id>>,
                     <<N_amount, W_50000>>, <<N_amount_currency, V_RUB>> >>
        hash   == CalcHash(signed, secret)
        sent   == IF tampered THEN [signed EXCEPT ![3] = <<N_amount, W_99999>>]
                  ELSE signed
    IN  sent \o (IF with_hash THEN << <<N_hash, hash>> >> ELSE <<>>)

NicepayWebhook(query) ==
    /\ Runnable("webhook")
    /\ NoneWaiting
    /\ UNCHANGED <<DYNAMIC_WHITELISTS, last_link_msg, order_map, next_step,
                   upd, cp, msg_seq, np_reqs, pure>>
    /\ LET r == nicepay_webhook(query)
       IN  eff' = Effect("nicepay_webhook", <<>>, r.status, r.calls, FALSE)
                  @@ [query |-> query, detail |-> r.detail]

-----------------------------------------------------------------------------
(* Next-state relation                                                     *)

Answers == {"link", "nolink", "reject", "down", "notobject"}

\* Requests to /tg-webhook/{bot_key}.  The two gates return before the body
\* is read, so one update stands for every body of a request they turn away;
\* b2 has no secret configured and its header is not looked at.
TgRequests ==
    [key : {B1}, header : {TG_WEBHOOK_SECRETS[B1]}, update : Updates]
    \cup [key : {B2}, header : {<<"x">>},
          update : {u \in Updates : u.kind = "start"}]
    \cup [key : {B1, BX}, header : {<<"x">>},
          update : {[kind |-> "getid", chat |-> User, arg |-> <<>>]}]

\* annotation commands that arrive while a handler is running
QueuedUpdates ==
    {u \in Updates : \/ u.kind = "info" /\ u.arg = <<"t2">>
                     \/ u.kind = "link" /\ u.arg = L_u_c}

\* updates whose body is still on its way when the coroutine asks for it
LateUpdates == {[kind |-> "getid", chat |-> User, arg |-> <<>>]}

\* calls of the /create_payment route that name a tenant nobody configured
RouteCalls ==
    [key : {BX}, amount : {500}, chat : {User}, currency : {V_RUB},
     suffix : {Hex_a}]

\* /webhook requests: every way of signing and sending the given order ids.
\* Without a hash the signer plays no part and one request stands for all.
QueriesFor(order_ids, results, keys) ==
    {WebhookQuery(o, r, SECRET_KEYS[k], t, TRUE) :
        o \in order_ids, r \in results, k \in keys, t \in BOOLEAN}
    \cup {WebhookQuery(o, r, <<>>, FALSE, FALSE) :
        o \in order_ids, r \in results}

IssuedOrderIds == {r.order_id : r \in np_reqs}

\* The chat side: every command of the bots, the updates that queue behind a
\* running handler or wait for their body, and the signed confirmations of
\* the payments the chats asked for
Next ==
    \/ \E r \in TgRequests : TgUpdate(r.key, r.header, r.update)
    \/ \E i \in Slots, u \in QueuedUpdates :
          InHandler(i) /\ TgArrive(upd[i].bot_key, u)
    \/ \E i \in Slots : TgResume(i)
    \/ \E u \in LateUpdates : TgSuspend(B1, TG_WEBHOOK_SECRETS[B1], u)
    \/ \E i \in Slots : TgBody(i)
    \/ \E i \in Slots, ok \in BOOLEAN : InfoFinish(i, ok)
    \/ \E i \in Slots, out \in LinkOutcomes : LinkFinish(i, out)
    \/ \E i \in Slots, a \in Answers, l \in Links, ok \in BOOLEAN :
          AmountFinish(i, a, l, ok)
    \/ \E c \in RouteCalls :
          CreatePaymentStart(c.key, c.amount, c.chat, c.currency, c.suffix)
    \/ \E o \in IssuedOrderIds :
          NicepayWebhook(WebhookQuery(o, V_success, SECRET_KEYS[B1], FALSE, TRUE))

Spec == Init /\ [][Next]_vars

-----------------------------------------------------------------------------
(* The processor side: every kind of /create_payment call and of /webhook  *)
(* request, and a /tg-webhook request for a key that is not configured     *)

HookTgRequests ==
    [key : {BX}, header : {<<"x">>},
     update : {[kind |-> "getid", chat |-> User, arg |-> <<>>]}]

\* what the /create_payment route is called with: amounts inside the limits
\* of each currency, far below them and next to them on either side, a
\* currency that is not supported, a tenant that is not configured and a
\* missing one
HookRouteCalls ==
    [key : {B1, BX, <<>>}, amount : {500, 5}, chat : RouteChats,
     currency : {V_RUB, V_EUR}, suffix : {Hex_a}]
    \cup [key : {B1}, amount : {500, 5, 9, 991}, chat : {User},
          currency : {V_USD}, suffix : {Hex_a}]
    \cup [key : {B1}, amount : {199, 85001}, chat : {User},
          currency : {V_RUB}, suffix : {Hex_a}]
    \cup [key : {B2}, amount : {500}, chat : {User},
          currency : {V_RUB}, suffix : {Hex_a}]

NextHook ==
    \/ \E r \in HookTgRequests : TgUpdate(r.key, r.header, r.update)
    \/ \E c \in HookRouteCalls :
          CreatePaymentStart(c.key, c.amount, c.chat, c.currency, c.suffix)
    \/ \E a \in Answers, l \in Links : CreatePaymentFinish(a, l)
    \/ \E q \in QueriesFor(IssuedOrderIds \cup CraftedOrderIds,
                           {V_success, V_fail}, DOMAIN SECRET_KEYS) :
          NicepayWebhook(q)

\* a first run of the service: no allow-list file has been saved yet (the
\* routes of this side never read the allow-lists)
InitHook == Init /\ DYNAMIC_WHITELISTS = [k \in BOT_KEYS |-> {}]

SpecHook == InitHook /\ [][NextHook]_vars

-----------------------------------------------------------------------------
(* Issuing a payment: the chat amount prompt and the /create_payment route *)

IssueTgRequests ==
    [key : {B1}, header : {TG_WEBHOOK_SECRETS[B1]},
     update : {[kind |-> "callback", chat |-> Admin, arg |-> <<"pay_custom">>],
               [kind |-> "text", chat |-> Admin, arg |-> W_500],
               [kind |-> "text", chat |-> Admin, arg |-> W_500_sp],
               [kind |-> "text", chat |-> Admin, arg |-> W_5_00],
               [kind |-> "text", chat |-> Admin, arg |-> W_100],
               [kind |-> "photo", chat |-> Admin, arg |-> None]}]

\* the one of them whose body comes late
IssueLate == {r \in IssueTgRequests : r.update.arg = W_500}

IssueRouteCalls ==
    [key : {B1}, amount : {500}, chat : {User}, currency : {V_RUB},
     suffix : Suffixes]

NextIssue ==
    \/ \E r \in IssueTgRequests : TgUpdate(r.key, r.header, r.update)
    \/ \E r \in IssueLate : TgSuspend(r.key, r.header, r.update)
    \/ \E i \in Slots : TgBody(i)
    \/ \E i \in Slots, a \in Answers, l \in Links, ok \in BOOLEAN :
          AmountFinish(i, a, l, ok)
    \/ \E c \in IssueRouteCalls :
          CreatePaymentStart(c.key, c.amount, c.chat, c.currency, c.suffix)
    \/ \E a \in Answers, l \in Links : CreatePaymentFinish(a, l)

SpecIssue == Init /\ [][NextIssue]_vars

-----------------------------------------------------------------------------
(* The order-id codec and the signature as functions of their inputs       *)

\* an 8-character suffix that is not hexadecimal
Hex_dash == <<"a", "a", "-", "a", "a", "a", "a", "a">>

OrderIdInputs ==
    [kind : {"order_id_in"}, tenant : {B1, B2, <<>>},
     chat : {User, 0, ParseInt(W_neg5).val, Admin},
     suffix : Suffixes \cup {Hex_dash}]

\* the orders four parameters can arrive in
ArrivalOrders == {p \in [1..4 -> 1..4] : \A i, j \in 1..4 : p[i] = p[j] => i = j}

SignedItems(amount, result) ==
    << <<N_amount, amount>>, <<N_amount_currency, V_RUB>>,
       <<N_order_id, MakeOrderId(B1, User, Hex_a)>>, <<N_result, result>> >>

SignInputs ==
    {[kind |-> "sign_in",
      query |-> [i \in 1..4 |-> SignedItems(a, r)[p[i]]],
      secret |-> SECRET_KEYS[k]] :
        a \in {W_50000, W_99999}, r \in {V_success, V_fail},
        p \in ArrivalOrders, k \in {B1, B3}}

InitPure ==
    /\ DYNAMIC_WHITELISTS = [k \in BOT_KEYS |-> {}]
    /\ last_link_msg = [k \in BOT_KEYS |-> <<>>]
    /\ order_map = <<>>
    /\ next_step = <<>>
    /\ upd = [i \in Slots |-> Idle]
    /\ cp = Idle
    /\ msg_seq = 0
    /\ np_reqs = {}
    /\ eff = NoEffect
    /\ pure \in OrderIdInputs \cup SignInputs

\* create_payment_core builds the order id, nicepay_webhook takes it apart
ApplyOrderId ==
    /\ pure.kind = "order_id_in"
    /\ LET order_id == MakeOrderId(pure.tenant, pure.chat, pure.suffix)
       IN  pure' = [kind |-> "order_id", tenant |-> pure.tenant,
                    chat |-> pure.chat, suffix |-> pure.suffix,
                    order_id |-> order_id,
                    bot_key |-> HookBotKey(order_id),
                    chat_id |-> HookChatId(order_id)]
    /\ UNCHANGED <<DYNAMIC_WHITELISTS, last_link_msg, order_map, next_step,
                   upd, cp, msg_seq, np_reqs, eff>>

\* params with the value at position k replaced
Alter(params, k, v) == [params EXCEPT ![k] = <<params[k][1], v>>]

\* nicepay_webhook computes the string it hashes and the hash, for the query
\* as it arrived and for the query with one value replaced
ApplySign ==
    /\ pure.kind = "sign_in"
    /\ LET params == WithoutHash(QueryDict(pure.query))
       IN  pure' = [kind |-> "sign", query |-> pure.query,
                    secret |-> pure.secret,
                    base |-> SignBase(params, pure.secret),
                    hash |-> CalcHash(params, pure.secret),
                    changed |->
                        {CalcHash(Alter(params, kv[1], kv[2]), pure.secret) :
                            kv \in {x \in (1..Len(params))
                                          \X {W_42, V_success, V_fail, <<>>} :
                                      x[2] /= params[x[1]][2]}}]
    /\ UNCHANGED <<DYNAMIC_WHITELISTS, last_link_msg, order_map, next_step,
                   upd, cp, msg_seq, np_reqs, eff>>

NextPure == ApplyOrderId \/ ApplySign

SpecPure == InitPure /\ [][NextPure]_vars

-----------------------------------------------------------------------------
(* Properties                                                              *)

\* Reading a request as the sender wrote it (every name once)
HasField(q, name) == \E i \in 1..Len(q) : q[i][1] = name

Field(q, name) == q[CHOOSE i \in 1..Len(q) : q[i][1] = name][2]

\* the characters of an order id before its first dash (all of it when it
\* has none)
FirstField(order_id) ==
    IF \E k \in 1..Len(order_id) : order_id[k] = "-"
    THEN SubSeq(order_id, 1,
                (CHOOSE k \in 1..Len(order_id) :
                    /\ order_id[k] = "-"
                    /\ \A j \in 1..(k - 1) : order_id[j] /= "-") - 1)
    ELSE order_id

\* the hash of the four values in the order of their names, secret last
ExpectedBase(q, secret) ==
    Field(q, N_amount) \o NP \o Field(q, N_amount_currency) \o NP
    \o Field(q, N_order_id) \o NP \o Field(q, N_result) \o NP \o secret

ExpectedHash(q, secret) == <<"sha256:">> \o ExpectedBase(q, secret)

\* who the Bot API calls of a step were made through and to
Targets(calls) == {<<c.bot, c.chat>> : c \in calls}

\* C1: every payment-confirmation webhook request, whatever its internal
\* outcome, ends with the success acknowledgment and never with an HTTP error
C1_AlwaysAcknowledged ==
    eff.op = "nicepay_webhook" => eff.status = 200

\* C2: nicepay_webhook sends a confirmation only when the received hash is
\* the hash of the request's other parameters under the secret of the tenant
\* the order id's first field names; a tampered request or one signed with
\* another tenant's secret makes no bot send anything
C2_SendOnlyWhenSigned ==
    (eff.op = "nicepay_webhook" /\ eff.calls /= {}) =>
        LET key == FirstField(Field(eff.query, N_order_id))
        IN  /\ HasField(eff.query, N_hash)
            /\ key \in DOMAIN SECRET_KEYS
            /\ Field(eff.query, N_hash) = ExpectedHash(eff.query, SECRET_KEYS[key])

C2_ConfirmationSent ==
    /\ eff.op = "nicepay_webhook"
    /\ eff.calls /= {}
    /\ Field(eff.query, N_hash)
         = ExpectedHash(eff.query, SECRET_KEYS[FirstField(Field(eff.query, N_order_id))])

\* a request for the order id of r with result=success and the hash the
\* tenant of r signs it with has just been handled
SignedSuccessFor(r) ==
    /\ eff.op = "nicepay_webhook"
    /\ HasField(eff.query, N_hash)
    /\ Field(eff.query, N_order_id) = r.order_id
    /\ Field(eff.query, N_result) = V_success
    /\ Field(eff.query, N_hash) = ExpectedHash(eff.query, SECRET_KEYS[r.bot_key])

\* C3 as stated: a validly signed success webhook for the order id issued for
\* (tenant_key, chat_id) makes that tenant's bot send to exactly that chat,
\* and nothing is sent to another chat or through another bot
C3_RoutedAlways ==
    \A r \in np_reqs :
        SignedSuccessFor(r) => Targets(eff.calls) = {<<r.bot_key, r.chat_id>>}

\* C3, amended: the same for a tenant key without a dash and a chat_id that is
\* not negative (its decimal form has no dash)
C3_RoutedWhenDashFree ==
    \A r \in np_reqs :
        (SignedSuccessFor(r) /\ ~Contains(r.bot_key, "-") /\ r.chat_id >= 0)
            => Targets(eff.calls) = {<<r.bot_key, r.chat_id>>}

C3_Confirmed ==
    \E r \in np_reqs :
        /\ SignedSuccessFor(r)
        /\ r.bot_key = B1 /\ r.chat_id = User
        /\ Targets(eff.calls) = {<<B1, User>>}

\* C4: for a tenant key and a chat_id without a dash and any 8-character
\* suffix, the order id create_payment_core builds is decoded by
\* nicepay_webhook to the same tenant key and the same integer chat_id
C4_OrderIdRoundTrip ==
    (pure.kind = "order_id" /\ ~Contains(pure.tenant, "-") /\ pure.chat >= 0) =>
        /\ pure.bot_key = pure.tenant
        /\ pure.chat_id = [ok |-> TRUE, val |-> pure.chat]

C4_Decoded ==
    /\ pure.kind = "order_id"
    /\ pure.tenant = B1 /\ pure.chat = User /\ pure.suffix = Hex_dash
    /\ pure.bot_key = B1 /\ pure.chat_id.ok /\ pure.chat_id.val = User

\* C5: the string that is hashed is the parameter values in the order of the
\* parameter names, joined with {np}, the secret last, whatever order the
\* parameters arrived in; replacing any one value gives another hash
C5_SignatureBase ==
    pure.kind = "sign" =>
        /\ pure.base = ExpectedBase(pure.query, pure.secret)
        /\ pure.hash = ExpectedHash(pure.query, pure.secret)
        /\ pure.changed /= {}
        /\ pure.hash \notin pure.changed

C5_SignedOutOfOrder ==
    /\ pure.kind = "sign"
    /\ pure.query[1][1] = N_result
    /\ pure.query[4][1] = N_amount
    /\ pure.hash = ExpectedHash(pure.query, pure.secret)

\* an amount outside the limits of its currency, or a currency without limits
OutOfLimits(amount, currency) ==
    \/ currency = V_RUB /\ (amount < 200 \/ amount > 85000)
    \/ currency = V_USD /\ (amount < 10 \/ amount > 990)
    \/ currency \notin {V_RUB, V_USD}

\* C6: a call of create_payment_core with an amount outside [200, 85000] RUB
\* or [10, 990] USD, or with another currency, is rejected with an error and
\* sends nothing to the processor: no request the processor ever got carries
\* such an amount or currency
C6_ValidationBeforeNetwork ==
    /\ (/\ eff.op \in {"create_payment", "create_payment_post"}
        /\ "amount" \in DOMAIN eff
        /\ eff.key \in BOT_KEYS
        /\ OutOfLimits(eff.amount, eff.currency))
        => (eff.op = "create_payment" /\ eff.status = 400 /\ ~eff.np)
    /\ \A r \in np_reqs : ~OutOfLimits(r.amount \div 100, r.currency)

\* 991 USD, one above the upper limit, was turned away
C6_RejectedUsd ==
    /\ eff.op = "create_payment"
    /\ "amount" \in DOMAIN eff
    /\ eff.key = B1 /\ eff.currency = V_USD /\ eff.amount = 991
    /\ eff.status = 400 /\ ~eff.np

\* the step just taken named a tenant key that is not a configured bot key:
\* in the path of /create_payment or /tg-webhook, or as the first field of
\* the order id of a /webhook request
UnknownTenantStep ==
    \/ /\ eff.op \in {"create_payment", "create_payment_post",
                      "tg_webhook", "tg_webhook_wait"}
       /\ eff.key \notin BOT_KEYS
    \/ /\ eff.op = "nicepay_webhook"
       /\ FirstField(Field(eff.query, N_order_id)) \notin BOT_KEYS

\* C7: create_payment, tg_webhook and nicepay_webhook called with a tenant key
\* that is not a configured bot key send no payment request, change no
\* session state and make no bot send a message
C7_UnknownTenantNoEffect ==
    UnknownTenantStep => (eff.calls = {} /\ ~eff.np /\ ~eff.wrote)

C7_UnlistedTenantSigned ==
    /\ eff.op = "nicepay_webhook"
    /\ FirstField(Field(eff.query, N_order_id)) = B3
    /\ Field(eff.query, N_result) = V_success
    /\ eff.status = 200
    /\ eff.calls = {}

\* C8: for every (tenant_key, chat_id) whose session in last_link_msg has a
\* non-empty order_id, order_map has an entry under that order_id with the
\* same tenant key, chat_id and message_id
C8_IndexesAgree ==
    \A b \in BOT_KEYS : \A c \in DOMAIN last_link_msg[b] :
        LET s == last_link_msg[b][c]
        IN  s.order_id /= <<>> =>
                /\ s.order_id \in DOMAIN order_map
                /\ order_map[s.order_id].bot_key = b
                /\ order_map[s.order_id].chat_id = c
                /\ order_map[s.order_id].message_id = s.message_id

\* a second payment of the chat has replaced the session of the first
C8_SecondPaymentTracked ==
    /\ HasSession(B1, User)
    /\ last_link_msg[B1][User].order_id /= <<>>
    /\ last_link_msg[B1][User].message_id = MaxMsgId
    /\ Cardinality(DOMAIN order_map) = 2

\* create_payment_core has just returned a link and an order id
CoreReturned ==
    \/ eff.op = "create_payment" /\ eff.status = 200
    \/ "core" \in DOMAIN eff /\ eff.core = 200

\* order_map binds the order id of the request to its tenant and chat
Recorded(req) ==
    /\ req.order_id \in DOMAIN order_map
    /\ order_map[req.order_id].bot_key = req.bot_key
    /\ order_map[req.order_id].chat_id = req.chat_id

\* C9 as stated: after every successful return of create_payment_core, from
\* the chat amount prompt or from the /create_payment route, order_map has an
\* entry for the returned order id bound to the tenant and chat of the payment
C9_RecordedAlways ==
    CoreReturned => Recorded(eff.req)

\* C9, amended: order_map has that entry after handle_custom_amount got the
\* link and its link message was sent; the /create_payment route writes no
\* session state
C9_RecordedAfterLinkMessage ==
    /\ (/\ "core" \in DOMAIN eff /\ eff.core = 200
        /\ \A c \in eff.calls : c.what /= "payment_error")
        => Recorded(eff.req)
    /\ eff.op \in {"create_payment", "create_payment_post"} => ~eff.wrote

C9_LinkMessageSent ==
    /\ eff.op = "tg_webhook" /\ "core" \in DOMAIN eff /\ eff.core = 200
    /\ \A c \in eff.calls : c.what /= "payment_error"
    /\ Recorded(eff.req)
    /\ eff.req.chat_id = Admin

\* C10: two annotation commands for one (tenant_key, chat_id) that are in
\* flight together do not interleave: never are two handlers partway through,
\* and the base_text an /info is about to extend is the one that is stored
C10_NoLostUpdate ==
    /\ \A i, j \in Slots : (InHandler(i) /\ InHandler(j)) => i = j
    /\ \A i \in Slots :
          upd[i].pc = "info_edit" =>
              /\ HasSession(upd[i].bot_key, upd[i].chat)
              /\ last_link_msg[upd[i].bot_key][upd[i].chat].base_text = upd[i].base

C10_TwoInFlight ==
    \E i, j \in Slots :
        /\ upd[i].pc = "info_edit"
        /\ upd[j].pc = "queued"
        /\ upd[j].update.kind = "link"
        /\ upd[j].bot_key = upd[i].bot_key
        /\ upd[j].update.chat = upd[i].chat

-----------------------------------------------------------------------------
(* Waiting for the processor: one chat asks for a payment while another    *)
(* chat writes to the same bot and a confirmation for another chat arrives *)

\* what the chat that pays sends
WaitTgRequests ==
    [key : {B1}, header : {TG_WEBHOOK_SECRETS[B1]},
     update : {[kind |-> "callback", chat |-> Admin, arg |-> <<"pay_custom">>],
               [kind |-> "text", chat |-> Admin, arg |-> W_500]}]

\* what the other chat sends
OtherChatUpdate == [kind |-> "getid", chat |-> User, arg |-> <<>>]

\* a signed confirmation of a payment of the other chat
OtherChatQuery ==
    WebhookQuery(MakeOrderId(B1, User, Hex_a), V_success, SECRET_KEYS[B1],
                 FALSE, TRUE)

NextWait ==
    \/ \E r \in WaitTgRequests : TgUpdate(r.key, r.header, r.update)
    \/ TgUpdate(B1, TG_WEBHOOK_SECRETS[B1], OtherChatUpdate)
    \/ TgArrive(B1, OtherChatUpdate)
    \/ \E i \in Slots : TgResume(i)
    \/ TgSuspend(B1, TG_WEBHOOK_SECRETS[B1], OtherChatUpdate)
    \/ \E i \in Slots : TgBody(i)
    \/ \E i \in Slots, a \in Answers, l \in Links, ok \in BOOLEAN :
          AmountFinish(i, a, l, ok)
    \/ NicepayWebhook(OtherChatQuery)

SpecWait == Init /\ [][NextWait]_vars

\* a payment handler is waiting for the processor's answer
WaitingOnProcessor == \E i \in Slots : upd[i].pc = "amount_core"

\* C11: while a payment issue of one chat waits for the processor, a command
\* and a webhook of another chat can be handled to their end
C11_OtherChatProceeds ==
    WaitingOnProcessor =>
        /\ ENABLED TgUpdate(B1, TG_WEBHOOK_SECRETS[B1], OtherChatUpdate)
        /\ ENABLED NicepayWebhook(OtherChatQuery)

\* C12: last_link_msg and order_map are written only by an issue that
\* completed, and then both: a step that changes either of them is a handler
\* run in which the processor returned a link and the link message was sent;
\* a rejected amount, a failed or rejected processor call and a failed send
\* leave both as they were
C12_NoPartialSession ==
    [][(order_map' /= order_map \/ last_link_msg' /= last_link_msg) =>
          /\ order_map' /= order_map
          /\ last_link_msg' /= last_link_msg
          /\ eff'.op \in {"tg_webhook", "tg_webhook_wait"}
          /\ "core" \in DOMAIN eff'
          /\ eff'.core = 200
          /\ \E c \in eff'.calls : c.what = "link_msg"
          /\ \A c \in eff'.calls : c.what /= "payment_error"]_vars

\* the processor returned a link, sending it failed, nothing was recorded
C12_SendFailed ==
    /\ eff.op = "tg_webhook" /\ "core" \in DOMAIN eff /\ eff.core = 200
    /\ \E c \in eff.calls : c.what = "payment_error"
    /\ ~eff.wrote
    /\ order_map = <<>>
    /\ ~HasSession(B1, Admin)

-----------------------------------------------------------------------------
(* The POST of create_payment_core under the session's Retry policy        *)

\* Retry(total=5, connect=5, read=5, ...)
RetryTotal   == 5
RetryConnect == 5
RetryRead    == 5

\* status_forcelist
StatusForcelist == {429, 500, 502, 503, 504}

\* What one request ends with: no connection, no response in time or a broken
\* connection after the request went out, or a response with an HTTP status
\* and a body ("link", "nolink", "reject", "notobject" as in CoreResult;
\* "nojson" when r.json() raises; "any" where the body is not looked at)
Outcomes ==
    [kind : {"connect_error", "read_error"}, http : {0}, body : {"none"}]
    \cup [kind : {"response"}, http : StatusForcelist, body : {"any"}]
    \cup [kind : {"response"}, http : {200, 400},
          body : {"link", "nolink", "reject", "notobject", "nojson"}]

\* allowed_methods=["POST"]: a read error of the POST is retried like a
\* connect error; a response is retried when its status is in the forcelist
IsRetry(o) ==
    \/ o.kind \in {"connect_error", "read_error"}
    \/ o.kind = "response" /\ o.http \in StatusForcelist

\* Retry.increment: total always, connect or read by the kind of error
Increment(counts, o) ==
    [total   |-> counts.total - 1,
     connect |-> counts.connect - (IF o.kind = "connect_error" THEN 1 ELSE 0),
     read    |-> counts.read - (IF o.kind = "read_error" THEN 1 ELSE 0)]

\* a policy that gives up one failure later
IsExhaustedLate(counts) ==
    counts.total < 0 - 1 \/ counts.connect < 0 - 1 \/ counts.read < 0 - 1

\* Retry.is_exhausted: a counter has gone below zero
IsExhausted(counts) ==
    counts.total < 0 \/ counts.connect < 0 \/ counts.read < 0

\* the request the retried call carries
RetryRequest == CoreRequest(B1, 500, User, V_RUB, Hex_a)

Pending == [status |-> 0, detail |-> "", body |-> <<>>]

InitRetry ==
    /\ DYNAMIC_WHITELISTS = [k \in BOT_KEYS |-> {}]
    /\ last_link_msg = [k \in BOT_KEYS |-> <<>>]
    /\ order_map = <<>>
    /\ next_step = <<>>
    /\ upd = [i \in Slots |-> Idle]
    /\ cp = Idle
    /\ msg_seq = 0
    /\ np_reqs = {}
    /\ eff = NoEffect
    /\ pure = [kind |-> "post",
               counts |-> [total |-> RetryTotal, connect |-> RetryConnect,
                           read |-> RetryRead],
               sent |-> 0,
               last |-> [kind |-> "none", http |-> 0, body |-> "none"],
               result |-> Pending]

\* one request goes out and ends with outcome o: it is sent again, or the
\* retries are used up (the except branch: 502), or the answer is parsed
PostAttempt(o) ==
    /\ pure.kind = "post"
    /\ pure.result = Pending
    /\ LET counts == IF IsRetry(o) THEN Increment(pure.counts, o) ELSE pure.counts
           answer == IF o.body \in {"link", "nolink", "reject", "notobject"}
                     THEN o.body
                     ELSE "down"
       IN  pure' = [pure EXCEPT
                      !.counts = counts,
                      !.sent   = @ + 1,
                      !.last   = o,
                      !.result = IF IsRetry(o) /\ ~IsExhausted(counts)
                                 THEN Pending
                                 ELSE CoreResult(RetryRequest,
                                                 IF IsRetry(o) THEN "down" ELSE answer,
                                                 <<"https://pay/x">>)]
    /\ UNCHANGED <<DYNAMIC_WHITELISTS, last_link_msg, order_map, next_step,
                   upd, cp, msg_seq, np_reqs, eff>>

NextRetry == \E o \in Outcomes : PostAttempt(o)

SpecRetry == InitRetry /\ [][NextRetry]_vars

\* every request ends: with a response, or at the connect or read timeout
SpecRetryFair == SpecRetry /\ WF_vars(NextRetry)

\* C13 as stated: the request is sent again only after a connection failure
\* or a response with HTTP 429, 500, 502, 503 or 504, and an HTTP 200 whose
\* JSON status is not "success" is reported at once, without another request
C13_RetryOnlyListedClasses ==
    [][/\ (pure'.sent > pure.sent /\ pure.sent > 0) =>
              \/ pure.last.kind = "connect_error"
              \/ pure.last.http \in {429, 500, 502, 503, 504}
       /\ (pure'.last.http = 200 /\ pure'.last.body = "reject") =>
              (pure'.result.status = 400 /\ pure'.sent = pure.sent + 1)]_vars

\* C14 as stated: at most 5 requests go to the processor
C14_AtMostFiveAttempts == pure.kind = "post" => pure.sent <= 5

\* C14, amended: at most 6 requests go to the processor (the first and five
\* retries); when every one of them failed transiently the call reports an
\* upstream failure (502); and the call always comes to an end
C14_SixAttemptsThenFailure ==
    /\ [](pure.kind = "post" => pure.sent <= 6)
    /\ []((pure.kind = "post" /\ pure.sent = 6 /\ IsRetry(pure.last)) =>
              pure.result.status = 502)
    /\ <>(pure.kind = "post" /\ pure.result /= Pending)

\* six requests failed transiently, in more than one way
C14_RetriesUsedUp ==
    /\ pure.kind = "post"
    /\ pure.sent = 6
    /\ pure.last.kind = "read_error"
    /\ pure.counts.connect < RetryConnect
    /\ pure.result.status = 502

-----------------------------------------------------------------------------
(* create_payment_core as a function of its arguments and the answer       *)

V_error == <<"e", "r", "r", "o", "r">>

M_limit == <<"Limit exceeded">>

\* What _session.post(...).json() gives: nothing (json |-> FALSE: the except
\* branch), or an object with a "status" and, under "data", a "link" and a
\* "message"; None stands for null, NoKey for a key that is not there, <<>>
\* for "".
\* shape tells what has no .get: "list" is JSON that is no object (a list, a
\* string, a number), "data_list" an object whose "data" is neither an
\* object nor empty.
NoKey == <<"no key">>

NoReply ==
    [json |-> FALSE, shape |-> "object", status |-> NoKey, has_data |-> FALSE,
     link |-> NoKey, message |-> NoKey]

Replies ==
    {NoReply}
    \cup [json : {TRUE}, shape : {"object"},
          status : {V_success, V_error, None, NoKey},
          has_data : BOOLEAN,
          link : {NoKey, None, <<>>, <<"https://pay/x">>, <<"https://pay/y">>},
          message : {NoKey, None, <<>>, M_limit}]
    \cup [json : {TRUE}, shape : {"list"}, status : {NoKey},
          has_data : {FALSE}, link : {NoKey}, message : {NoKey}]
    \cup [json : {TRUE}, shape : {"data_list"}, status : {V_success, V_error},
          has_data : {FALSE}, link : {NoKey}, message : {NoKey}]

\* data.get(...) or (data.get("data") or {}).get(...) raises AttributeError
NoGet(reply) == reply.shape /= "object"

AttributeError == [status |-> 500, detail |-> <<"AttributeError">>, body |-> <<>>]

\* (data.get("data") or {}).get(name, default): the default only for a key
\* that is not there, None for a key that holds null
Inner(reply, name, default) ==
    LET v == IF ~reply.has_data THEN NoKey
             ELSE IF name = "link" THEN reply.link ELSE reply.message
    IN  IF v = NoKey THEN default ELSE v

\* what an f-string makes of a value: the text itself, "None" for None
Format(v) == IF v = None THEN <<"None">> ELSE v

\* a reading of the answer that returns a link whenever there is one
ParseAnswerLinkFirst(reply, order_id) ==
    LET link == Inner(reply, "link", None)
        msg  == Inner(reply, "message", <<"Unknown Nicepay error">>)
    IN  IF ~reply.json
        THEN [status |-> 502, detail |-> <<"Nicepay request failed">>, body |-> <<>>]
        ELSE IF NoGet(reply)
        THEN AttributeError
        ELSE IF link \notin {None, <<>>}
        THEN [status |-> 200, detail |-> <<>>, body |-> <<link, order_id>>]
        ELSE IF reply.status = V_success
        THEN [status |-> 502, detail |-> <<"Nicepay success without link">>,
              body |-> <<>>]
        ELSE [status |-> 400,
              detail |-> <<"Nicepay error: ">> \o Format(msg),
              body |-> <<>>]

\* lines 326-337: the except branch, then the status, the link, the message
ParseAnswer(reply, order_id) ==
    LET link == Inner(reply, "link", None)
        msg  == Inner(reply, "message", <<"Unknown Nicepay error">>)
    IN  IF ~reply.json
        THEN [status |-> 502, detail |-> <<"Nicepay request failed">>, body |-> <<>>]
        ELSE IF NoGet(reply)
        THEN AttributeError
        ELSE IF reply.status = V_success
        THEN IF link \in {None, <<>>}
             THEN [status |-> 502, detail |-> <<"Nicepay success without link">>,
                   body |-> <<>>]
             ELSE [status |-> 200, detail |-> <<>>, body |-> <<link, order_id>>]
        ELSE [status |-> 400,
              detail |-> <<"Nicepay error: ">> \o Format(msg),
              body |-> <<>>]

\* the whole call: the argument check, the request, the answer
create_payment_core(bot_key, amount, chat_id, currency, rand, reply) ==
    LET reject == CoreReject(amount, currency)
        req    == CoreRequest(bot_key, amount, chat_id, currency, Suffix(rand))
    IN  IF reject /= ""
        THEN [status |-> 400, detail |-> <<reject>>, body |-> <<>>, posted |-> {}]
        ELSE ParseAnswer(reply, req.order_id) @@ [posted |-> {req}]

CoreAmounts == {199, 200, 500, 85000, 85001, 9, 10, 990, 991}

CoreInputs ==
    [kind : {"core_in"}, bot_key : {B1, B2}, amount : CoreAmounts,
     chat_id : {User, Admin}, currency : {V_RUB, V_USD, V_EUR},
     rand : Rands, reply : Replies]

InitCore ==
    /\ DYNAMIC_WHITELISTS = [k \in BOT_KEYS |-> {}]
    /\ last_link_msg = [k \in BOT_KEYS |-> <<>>]
    /\ order_map = <<>>
    /\ next_step = <<>>
    /\ upd = [i \in Slots |-> Idle]
    /\ cp = Idle
    /\ msg_seq = 0
    /\ np_reqs = {}
    /\ eff = NoEffect
    /\ pure \in CoreInputs

ApplyCore ==
    /\ pure.kind = "core_in"
    /\ pure' = [kind |-> "core_out", in |-> pure,
                out |-> create_payment_core(pure.bot_key, pure.amount, pure.chat_id,
                                            pure.currency, pure.rand, pure.reply)]
    /\ UNCHANGED <<DYNAMIC_WHITELISTS, last_link_msg, order_map, next_step,
                   upd, cp, msg_seq, np_reqs, eff>>

NextCore == ApplyCore

SpecCore == InitCore /\ [][NextCore]_vars

\* the call got an answer of the processor's format: an object whose "data",
\* when it has one, is an object
CoreParsed ==
    /\ pure.kind = "core_out"
    /\ pure.out.posted /= {}
    /\ pure.in.reply.json
    /\ ~NoGet(pure.in.reply)

\* C15: of an answer the call has parsed, status "success" with a non-empty
\* link returns that link; "success" with a missing, null or empty link is the
\* upstream error 502 "Nicepay success without link"; any other status is the
\* error 400 whose detail carries what the processor gave as its message (its
\* text, "None" when the message is null, a fixed text when the answer has no
\* message); neither error returns a link or an order id, and an answer of
\* another JSON shape returns none either
C15_AnswerHandling ==
    /\ (pure.kind = "core_out" /\ pure.out.posted /= {} /\ NoGet(pure.in.reply)) =>
           (pure.out.status /= 200 /\ pure.out.body = <<>>)
    /\ CoreParsed =>
        LET r       == pure.in.reply
            out     == pure.out
            no_link == ~r.has_data \/ r.link \in {NoKey, None, <<>>}
            no_msg  == ~r.has_data \/ r.message = NoKey
        IN  /\ (r.status = V_success /\ ~no_link) =>
                   (out.status = 200 /\ out.body[1] = r.link)
            /\ (r.status = V_success /\ no_link) =>
                   /\ out.status = 502
                   /\ out.detail = <<"Nicepay success without link">>
                   /\ out.body = <<>>
            /\ r.status /= V_success =>
                   /\ out.status = 400
                   /\ out.body = <<>>
                   /\ (~no_msg /\ r.message /= None) =>
                          out.detail = <<"Nicepay error: ">> \o r.message
                   /\ (~no_msg /\ r.message = None) =>
                          out.detail = <<"Nicepay error: ", "None">>
                   /\ no_msg =>
                          out.detail = <<"Nicepay error: ", "Unknown Nicepay error">>

\* an answer that is not a success but carries a link and a message
C15_RejectedWithLink ==
    /\ CoreParsed
    /\ pure.in.reply.status = V_error
    /\ pure.in.reply.has_data
    /\ pure.in.reply.link = <<"https://pay/x">>
    /\ pure.in.reply.message = M_limit
    /\ pure.out.status = 400
    /\ pure.out.detail = <<"Nicepay error: ", "Limit exceeded">>

HexChars ==
    {"0", "1", "2", "3", "4", "5", "6", "7", "8", "9", "a", "b", "c", "d", "e", "f"}

CoreAccepted ==
    /\ pure.kind = "core_out"
    /\ \/ pure.in.currency = V_RUB /\ pure.in.amount >= 200 /\ pure.in.amount <= 85000
       \/ pure.in.currency = V_USD /\ pure.in.amount >= 10 /\ pure.in.amount <= 990
    /\ pure.in.reply.json
    /\ pure.in.reply.status = V_success
    /\ pure.in.reply.has_data
    /\ pure.in.reply.link \notin {NoKey, None, <<>>}

\* C16: for accepted arguments and an answer with status success and a link,
\* the call posts amount * 100 as the amount and returns the processor's link
\* unchanged with an order id that is the tenant key, a dash, the chat id in
\* decimal, a dash and 8 characters out of 0-9a-f
C16_IssueResult ==
    CoreAccepted =>
        LET in   == pure.in
            out  == pure.out
            oid  == out.body[2]
            head == in.bot_key \o <<"-">> \o IntToStr(in.chat_id) \o <<"-">>
        IN  /\ out.status = 200
            /\ \A req \in out.posted : req.amount = in.amount * 100
            /\ out.posted /= {}
            /\ out.body[1] = in.reply.link
            /\ Len(oid) = Len(head) + 8
            /\ SubSeq(oid, 1, Len(head)) = head
            /\ \A i \in (Len(head) + 1)..Len(oid) : oid[i] \in HexChars

\* 85000 RUB issued for the tenant whose key has a dash in it, with the
\* suffix of a uuid that starts with the bytes fe dc ba 98
C16_IssuedLargest ==
    /\ CoreAccepted
    /\ pure.in.bot_key = B2
    /\ pure.in.amount = 85000
    /\ pure.in.rand = Rand_f
    /\ pure.out.body[2] = B2 \o <<"-">> \o IntToStr(pure.in.chat_id)
                             \o <<"-", "f", "e", "d", "c", "b", "a", "9", "8">>
    /\ pure.in.reply.link = <<"https://pay/y">>
    /\ pure.out.status = 200
    /\ \E req \in pure.out.posted : req.amount = 8500000

-----------------------------------------------------------------------------
(* The webhook's result field, order id and gates                          *)

\* the last step was a webhook whose order id names a tenant with a secret
\* and whose hash is the hash of its other parameters under that secret
ValidlySigned ==
    /\ eff.op = "nicepay_webhook"
    /\ HasField(eff.query, N_hash)
    /\ Contains(Field(eff.query, N_order_id), "-")
    /\ FirstField(Field(eff.query, N_order_id)) \in DOMAIN SECRET_KEYS
    /\ Field(eff.query, N_hash)
           = ExpectedHash(eff.query,
                          SECRET_KEYS[FirstField(Field(eff.query, N_order_id))])

\* C17: a validly signed webhook whose result field is not "success" is
\* acknowledged with 200, makes no bot send a message and changes no state
C17_OtherResultNoOp ==
    (ValidlySigned /\ Field(eff.query, N_result) /= V_success) =>
        /\ eff.status = 200
        /\ eff.detail = ""
        /\ eff.calls = {}
        /\ ~eff.wrote
        /\ ~eff.np

\* a signed "fail" for an order the service has issued to a chat
C17_SignedFail ==
    /\ ValidlySigned
    /\ Field(eff.query, N_result) = V_fail
    /\ \E r \in np_reqs : r.order_id = Field(eff.query, N_order_id)
    /\ HookChatId(Field(eff.query, N_order_id)).ok
    /\ eff.status = 200

\* the hash of the last webhook is the hash of its other parameters under the
\* secret of the tenant that the order id's first dash-delimited field names
\* (the whole order id when it has no dash)
SignedForFirstField ==
    /\ eff.op = "nicepay_webhook"
    /\ HasField(eff.query, N_hash)
    /\ FirstField(Field(eff.query, N_order_id)) \in DOMAIN SECRET_KEYS
    /\ Field(eff.query, N_hash)
           = ExpectedHash(eff.query,
                          SECRET_KEYS[FirstField(Field(eff.query, N_order_id))])

\* the order id has no second dash-delimited field, or one that is no integer
MalformedOrderId(order_id) ==
    LET parts == Split(order_id, "-")
    IN  Len(parts) < 2 \/ ~ParseInt(parts[2]).ok

\* C18: a signed webhook whose order id has no second dash-delimited field, or
\* a second field that does not parse as an integer, is acknowledged with 200
\* and makes no bot send a message
C18_MalformedAcknowledged ==
    (SignedForFirstField /\ MalformedOrderId(Field(eff.query, N_order_id))) =>
        (eff.status = 200 /\ eff.calls = {})

\* the order id names a tenant the service holds a processor secret for
TenantNamed(order_id) ==
    Contains(order_id, "-") /\ FirstField(order_id) \in DOMAIN SECRET_KEYS

\* C20: the first failing gate of the webhook decides.  Without a hash the
\* answer is "hash missing" even when the tenant is unknown as well; with a
\* hash and an order id that names no tenant with a secret the answer is
\* "unknown bot_key in order_id" whatever the hash is; with a known tenant and
\* a hash that does not match the answer is "bad hash"; and in none of the
\* three cases is a message sent
C20_FirstFailingGate ==
    eff.op = "nicepay_webhook" =>
        LET q        == eff.query
            order_id == Field(q, N_order_id)
        IN  /\ ~HasField(q, N_hash) =>
                  (eff.status = 400 /\ eff.detail = "hash missing" /\ eff.calls = {})
            /\ (HasField(q, N_hash) /\ ~TenantNamed(order_id)) =>
                  /\ eff.status = 400
                  /\ eff.detail = "unknown bot_key in order_id"
                  /\ eff.calls = {}
            /\ (/\ HasField(q, N_hash)
                /\ TenantNamed(order_id)
                /\ Field(q, N_hash)
                      /= ExpectedHash(q, SECRET_KEYS[FirstField(order_id)])) =>
                  (eff.status = 400 /\ eff.detail = "bad hash" /\ eff.calls = {})

\* a success for an unknown tenant's order id that carries no hash
C20_NoHashUnknownTenant ==
    /\ eff.op = "nicepay_webhook"
    /\ ~HasField(eff.query, N_hash)
    /\ Field(eff.query, N_order_id) = MakeOrderId(BX, User, Hex_a)
    /\ Field(eff.query, N_result) = V_success
    /\ eff.detail = "hash missing"

-----------------------------------------------------------------------------
(* Import of the module: the configuration checks, the saved allow-lists   *)

\* whitelists/whitelist_<key>.json: not there, not JSON, or a list whose
\* items are numbers (what save_dynamic_whitelist writes) or strings
NoFile == [exists |-> FALSE, json |-> FALSE, items |-> <<>>]

WhitelistFiles ==
    {NoFile,
     [exists |-> TRUE, json |-> FALSE, items |-> <<>>],
     [exists |-> TRUE, json |-> TRUE, items |-> <<[int |-> User], [str |-> W_500]>>],
     [exists |-> TRUE, json |-> TRUE, items |-> <<[int |-> User], [str |-> W_abc]>>]}

\* int(x) of one item of the list
ItemInt(x) == IF "int" \in DOMAIN x THEN [ok |-> TRUE, val |-> x.int] ELSE ParseInt(x.str)

\* lines 77-84: the ids of the file; the empty set when there is no file or
\* when reading it, parsing it or int() of an item raises
load_dynamic_whitelist(file) ==
    IF ~file.exists \/ ~file.json THEN {}
    ELSE IF \E i \in 1..Len(file.items) : ~ItemInt(file.items[i]).ok THEN {}
    ELSE {ItemInt(file.items[i]).val : i \in 1..Len(file.items)}

\* What the environment holds: BOT_KEYS in its order, the keys each of the
\* four JSON tables has an entry for, TG_WEBHOOK_SECRET, and the allow-list
\* file of each key
BootInputs ==
    [kind : {"boot_in"},
     BOT_KEYS : {<<>>, <<B1>>, <<B1, B2>>, <<B2, B1>>},
     TELEGRAM_TOKENS : SUBSET {B1, B2},
     TG_WEBHOOK_SECRETS : SUBSET {B1, B2},
     MERCHANT_IDS : SUBSET {B1, B2},
     SECRET_KEYS : SUBSET {B1, B2},
     TG_WEBHOOK_SECRET : {<<>>, <<"g">>},
     files : [{B1, B2} -> WhitelistFiles]]

\* the loop of lines 44-54 from the i-th key on: the table whose entry is
\* missing for the first key that fails, "" when every key passes
RECURSIVE CheckKeys(_, _)
CheckKeys(env, i) ==
    IF i > Len(env.BOT_KEYS) THEN ""
    ELSE LET k == env.BOT_KEYS[i]
         IN  IF k \notin env.TELEGRAM_TOKENS THEN "TELEGRAM_TOKENS"
             ELSE IF k \notin env.MERCHANT_IDS THEN "MERCHANT_IDS"
             ELSE IF k \notin env.SECRET_KEYS THEN "SECRET_KEYS"
             ELSE CheckKeys(env, i + 1)

\* the RuntimeError the import ends with, "" when it goes through
ConfigError(env) ==
    IF env.BOT_KEYS = <<>> THEN "BOT_KEYS" ELSE CheckKeys(env, 1)

\* the keys of a list
KeySet(keys) == {keys[i] : i \in 1..Len(keys)}

\* TG_WEBHOOK_SECRETS after the loop: a key without an entry gets
\* TG_WEBHOOK_SECRET, which is "" when that is not set either
FilledWebhookSecrets(env) ==
    [k \in KeySet(env.BOT_KEYS) |->
        IF k \in env.TG_WEBHOOK_SECRETS THEN <<"w">> \o k
        ELSE env.TG_WEBHOOK_SECRET]

\* before the import: no module state yet
InitBoot ==
    /\ DYNAMIC_WHITELISTS = [k \in {} |-> {}]
    /\ last_link_msg = [k \in {} |-> <<>>]
    /\ order_map = <<>>
    /\ next_step = <<>>
    /\ upd = [i \in Slots |-> Idle]
    /\ cp = Idle
    /\ msg_seq = 0
    /\ np_reqs = {}
    /\ eff = NoEffect
    /\ pure \in BootInputs

\* the import runs: it raises at the configuration checks (lines 41-54), or
\* the state is set up (lines 63-69), the allow-list of every configured key
\* is loaded from its file (line 89), the bots are built (lines 437-441) and
\* the app serves
Startup ==
    /\ pure.kind = "boot_in"
    /\ LET error == ConfigError(pure)
           keys  == KeySet(pure.BOT_KEYS)
       IN  /\ pure' = [kind |-> "boot_out", env |-> pure, error |-> error,
                       serving |-> error = "",
                       bots |-> IF error = "" THEN keys ELSE {},
                       webhook_secrets |-> IF error = ""
                                           THEN FilledWebhookSecrets(pure)
                                           ELSE <<>>]
           /\ DYNAMIC_WHITELISTS' =
                  IF error = ""
                  THEN [k \in keys |-> load_dynamic_whitelist(pure.files[k])]
                  ELSE DYNAMIC_WHITELISTS
           /\ last_link_msg' =
                  IF error = "" THEN [k \in keys |-> <<>>] ELSE last_link_msg
    /\ UNCHANGED <<order_map, next_step, upd, cp, msg_seq, np_reqs, eff>>

NextBoot == Startup

SpecBoot == InitBoot /\ [][NextBoot]_vars

\* C19: when a configured tenant key has no bot token, no webhook secret, no
\* merchant id or no processor secret, the import ends with a fatal error and
\* the service never serves
C19_MissingFieldIsFatal ==
    (/\ pure.kind = "boot_out"
     /\ \E i \in 1..Len(pure.env.BOT_KEYS) :
           LET k == pure.env.BOT_KEYS[i]
           IN  \/ k \notin pure.env.TELEGRAM_TOKENS
               \/ k \notin pure.env.TG_WEBHOOK_SECRETS
               \/ k \notin pure.env.MERCHANT_IDS
               \/ k \notin pure.env.SECRET_KEYS)
    => (~pure.serving /\ pure.error /= "")

-----------------------------------------------------------------------------
(* The session of one chat: payments, /info and /link                      *)

\* what an allowed chat sends to its bot, and an /info of a chat that is not
\* allowed
NoteUpdates ==
    [kind : {"callback"}, chat : {Admin}, arg : {<<"pay_custom">>}]
    \cup [kind : {"text"}, chat : {Admin}, arg : {W_500}]
    \cup [kind : {"info"}, chat : {Admin}, arg : {<<>>, <<"t1">>, <<"t2">>}]
    \cup [kind : {"link"}, chat : {Admin}, arg : {L_u_c}]
    \cup [kind : {"info"}, chat : {User}, arg : {<<"t1">>}]

\* the one of them whose body comes late
NoteLate == [kind : {"info"}, chat : {Admin}, arg : {<<"t1">>}]

NextNote ==
    \/ \E u \in NoteUpdates : TgUpdate(B1, TG_WEBHOOK_SECRETS[B1], u)
    \/ \E u \in NoteLate : TgSuspend(B1, TG_WEBHOOK_SECRETS[B1], u)
    \/ \E i \in Slots : TgBody(i)
    \/ \E i \in Slots, ok \in BOOLEAN : InfoFinish(i, ok)
    \/ \E i \in Slots, out \in LinkOutcomes : LinkFinish(i, out)
    \/ \E i \in Slots, a \in Answers, l \in Links, ok \in BOOLEAN :
          AmountFinish(i, a, l, ok)

SpecNote == Init /\ [][NextNote]_vars

\* the update u for the bot of B1 is handed to its handler in this step: as
\* it arrives, or when its body is there
Handled(u) ==
    \/ TgUpdate(B1, TG_WEBHOOK_SECRETS[B1], u)
    \/ \E i \in Slots :
          /\ upd[i].pc = "body" /\ upd[i].bot_key = B1 /\ upd[i].update = u
          /\ TgBody(i)

InfoUpdates == {u \in NoteUpdates : u.kind = "info"}

\* C21: an /info for a (tenant, chat) without a last-session entry asks for no
\* message edit and leaves last_link_msg and order_map as they were; a chat
\* with access that is not being asked for an amount is told that there is
\* no payment to edit
C21_InfoWithoutSession ==
    [][\A u \in InfoUpdates :
          (Handled(u) /\ ~HasSession(B1, u.chat)) =>
              /\ last_link_msg' = last_link_msg
              /\ order_map' = order_map
              /\ \A c \in eff'.calls : c.what /= "edit"
              /\ \A j \in Slots : upd'[j].pc /= "info_edit"
              /\ (u.chat \in BASE_WHITELIST /\ ~Prompted(B1, u.chat)) =>
                     eff'.calls = {[bot |-> B1, chat |-> u.chat, what |-> "no_session"]}]_vars

\* an allowed chat has been told that it has no payment to edit
C21_NoPaymentToEdit ==
    /\ eff.op = "tg_webhook"
    /\ eff.calls = {[bot |-> B1, chat |-> Admin, what |-> "no_session"]}
    /\ ~HasSession(B1, Admin)
    /\ order_map = <<>>

\* C22: an /info with a text, from an allowed chat that has a session and is
\* not being asked for an amount, asks for an edit of the session's message
\* to the old base_text, a line break and the text; when the edit succeeds
\* exactly that text becomes the session's base_text and the session's
\* message_id and order_id stay, so that successive texts accumulate
C22_InfoAppends ==
    [][/\ \A u \in InfoUpdates :
            (/\ Handled(u)
             /\ u.arg /= <<>>
             /\ u.chat \in BASE_WHITELIST
             /\ HasSession(B1, u.chat)
             /\ ~Prompted(B1, u.chat)) =>
                \E j \in Slots :
                    /\ upd'[j].pc = "info_edit"
                    /\ upd'[j].chat = u.chat
                    /\ upd'[j].message_id = last_link_msg[B1][u.chat].message_id
                    /\ upd'[j].text = last_link_msg[B1][u.chat].base_text
                                         \o <<"\n">> \o u.arg
                    /\ [bot |-> B1, chat |-> u.chat, what |-> "edit"] \in eff'.calls
       /\ \A j \in Slots :
            (/\ upd[j].pc = "info_edit"
             /\ upd'[j] = Idle
             /\ \A c \in eff'.calls : c.what /= "edit_error") =>
                last_link_msg' =
                    [last_link_msg EXCEPT
                        ![upd[j].bot_key][upd[j].chat] =
                            [message_id |-> @.message_id,
                             order_id   |-> @.order_id,
                             base_text  |-> upd[j].text]]]_vars

\* the session of a payment after /info t1 and /info t2
C22_TwoAnnotations ==
    /\ HasSession(B1, Admin)
    /\ last_link_msg[B1][Admin].order_id = MakeOrderId(B1, Admin, Hex_a)
    /\ last_link_msg[B1][Admin].message_id = 1
    /\ last_link_msg[B1][Admin].base_text
          = <<"Ssylka na oplatu (", "5", "0", "0", " R):", "\n", "https://pay/x",
              "\n", "t1", "\n", "t2">>

\* in this step the amount handler of chat c under tenant k got a link from
\* the processor and sent the link message
IssuedTo(k, c) ==
    \E j \in Slots :
        /\ upd[j].pc = "amount_core"
        /\ upd[j].bot_key = k
        /\ upd[j].chat = c
        /\ upd'[j] /= upd[j]
        /\ "core" \in DOMAIN eff'
        /\ eff'.core = 200
        /\ \A x \in eff'.calls : x.what /= "payment_error"

\* C24: the session of a (tenant, chat) binds the chat's most recent payment
\* whose link message was sent.  A step that issues a payment to the chat
\* sets the session's order_id to the order id of that payment and its
\* message_id to the id of the new link message; every other step (/info,
\* /link, a failed payment, anything of another chat) leaves the order_id and
\* message_id of an existing session as they are, and a session that such a
\* step creates has an empty order_id
C24_SessionBindsLatestPayment ==
    [][\A k \in BOT_KEYS, c \in Chats :
          IF IssuedTo(k, c)
          THEN /\ c \in DOMAIN last_link_msg'[k]
               /\ msg_seq' = msg_seq + 1
               /\ last_link_msg'[k][c].message_id = msg_seq'
               /\ \E j \in Slots :
                     /\ upd[j].pc = "amount_core"
                     /\ upd[j].chat = c
                     /\ last_link_msg'[k][c].order_id = upd[j].req.order_id
          ELSE /\ HasSession(k, c) =>
                     /\ c \in DOMAIN last_link_msg'[k]
                     /\ last_link_msg'[k][c].order_id = last_link_msg[k][c].order_id
                     /\ last_link_msg'[k][c].message_id = last_link_msg[k][c].message_id
               /\ (~HasSession(k, c) /\ c \in DOMAIN last_link_msg'[k]) =>
                     last_link_msg'[k][c].order_id = <<>>]_vars

\* a session that /link opened has been taken over by a payment, and /link
\* and /info have changed its text since
C24_PaymentAfterLink ==
    /\ HasSession(B1, Admin)
    /\ last_link_msg[B1][Admin].message_id = 2
    /\ last_link_msg[B1][Admin].order_id = MakeOrderId(B1, Admin, Hex_0)
    /\ last_link_msg[B1][Admin].base_text
          = <<"Ssylka na oplatu:", "\n">> \o L_https_u \o <<"\n", "c", "\n", "t1">>

\* C25: when the edit that /info asked for fails, the chat is told so and
\* last_link_msg stays as it was; and the text an /info asks to be shown is
\* always built on the session's base_text at that moment, so the next /info
\* extends the text of the last edit that went through
C25_FailedEditKeepsText ==
    [][/\ \A j \in Slots :
            (/\ upd[j].pc = "info_edit"
             /\ upd'[j] = Idle
             /\ \E c \in eff'.calls : c.what = "edit_error") =>
                last_link_msg' = last_link_msg
       /\ \A j \in Slots :
            (upd[j].pc /= "info_edit" /\ upd'[j].pc = "info_edit") =>
                /\ upd'[j].base = last_link_msg[upd'[j].bot_key][upd'[j].chat].base_text
                /\ \/ upd'[j].text = upd'[j].base
                   \/ \E t \in {<<"t1">>, <<"t2">>} :
                         upd'[j].text = upd'[j].base \o <<"\n">> \o t]_vars

\* an /info has failed: the chat was told so and the session still has
\* the text of the link message
C25_EditFailed ==
    /\ eff.op = "tg_webhook"
    /\ eff.calls = {[bot |-> B1, chat |-> Admin, what |-> "edit_error"]}
    /\ HasSession(B1, Admin)
    /\ last_link_msg[B1][Admin].base_text
          = <<"Ssylka na oplatu (", "5", "0", "0", " R):", "\n", "https://pay/x">>

-----------------------------------------------------------------------------
(* The amounts of the confirmation as a function of the webhook's fields   *)

FmtValues == {0, 1, 5, 9, 10, 50, 99, 100, 101, 150, 199, 1005, 50000, 99999}

\* what arrives as amount and profit: integers in decimal, with and without
\* a sign, and texts that are no integer
FmtTexts ==
    {NatToStr(v) : v \in FmtValues}
    \cup {<<"-">> \o NatToStr(v) : v \in {5, 150, 50000}}
    \cup {<<"+", "5">>, W_abc, <<"5", ".", "0">>}
    \cup {W_500_sp, W_5_00, W_42_dev, <<"\t", "4", "2">>, <<"\f", "5">>,
          <<"5", "_", "_", "0">>, <<"_", "5">>, <<"5", " ", "0">>,
          <<"-", " ", "5">>, <<" ">>, <<"²">>}

FmtInputs ==
    [kind : {"fmt_in"}, x : FmtTexts, cur : {V_RUB, V_USD, V_USDT, V_EUR, <<>>},
     profit_cur : {V_USDT, V_EUR}]

\* a success for an order of chat 42 under B1 with amount and profit x, signed
\* with the secret of B1
FmtQuery(x, cur, profit_cur) ==
    LET signed == << <<N_result, V_success>>,
                     <<N_order_id, MakeOrderId(B1, User, Hex_a)>>,
                     <<N_amount, x>>, <<N_amount_currency, cur>>,
                     <<N_profit, x>>, <<N_profit_currency, profit_cur>> >>
    IN  signed \o << <<N_hash, CalcHash(signed, SECRET_KEYS[B1])>> >>

InitFmt ==
    /\ DYNAMIC_WHITELISTS = [k \in BOT_KEYS |-> {}]
    /\ last_link_msg = [k \in BOT_KEYS |-> <<>>]
    /\ order_map = <<>>
    /\ next_step = <<>>
    /\ upd = [i \in Slots |-> Idle]
    /\ cp = Idle
    /\ msg_seq = 0
    /\ np_reqs = {}
    /\ eff = NoEffect
    /\ pure \in FmtInputs

\* the webhook arrives: the two conversions and the message that is sent
ApplyFmt ==
    /\ pure.kind = "fmt_in"
    /\ pure' = [kind |-> "fmt_out", in |-> pure,
                amount_human |-> minor_to_human(pure.x, pure.cur),
                profit_human |-> minor_to_human(pure.x, pure.profit_cur),
                calls |-> nicepay_webhook(FmtQuery(pure.x, pure.cur,
                                                   pure.profit_cur)).calls]
    /\ UNCHANGED <<DYNAMIC_WHITELISTS, last_link_msg, order_map, next_step,
                   upd, cp, msg_seq, np_reqs, eff>>

NextFmt == ApplyFmt

SpecFmt == InitFmt /\ [][NextFmt]_vars

\* text shows the integer v divided by 100 with exactly two decimal places:
\* an optional minus sign, the whole part without leading zeros, a point and
\* two digits
ShowsHundredths(text, v) ==
    LET n     == Len(text)
        neg   == text /= <<>> /\ Head(text) = "-"
        whole == SubSeq(text, IF neg THEN 2 ELSE 1, n - 3)
        a     == IF v < 0 THEN 0 - v ELSE v
    IN  /\ n >= 4
        /\ text[n - 2] = "."
        /\ IsAsciiDigit(text[n - 1]) /\ IsAsciiDigit(text[n])
        /\ AllDigits(whole)
        /\ (Len(whole) > 1 => Head(whole) /= "0")
        /\ neg = (v < 0)
        /\ DigitsVal(whole, 0) * 100 + DigitsVal(SubSeq(text, n - 1, n), 0) = a

\* text shows the integer v as it is
ShowsInteger(text, v) ==
    /\ ParseInt(text).ok
    /\ ParseInt(text).val = v
    /\ \A i \in 1..Len(text) : IsAsciiDigit(text[i]) \/ (i = 1 /\ text[i] = "-")

Shown(text, v, cur) ==
    IF cur \in {V_RUB, V_USD, V_USDT} THEN ShowsHundredths(text, v)
    ELSE ShowsInteger(text, v)

\* C23: in the confirmation an amount (and a profit) that is an integer v of
\* minor units is shown as v / 100 with exactly two decimal places when its
\* currency is RUB, USD or USDT and as the integer itself for every other
\* currency, and the message carries the two texts with their currencies
C23_AmountFormat ==
    (pure.kind = "fmt_out" /\ ParseInt(pure.in.x).ok) =>
        LET v == ParseInt(pure.in.x).val
        IN  /\ Shown(pure.amount_human, v, pure.in.cur)
            /\ Shown(pure.profit_human, v, pure.in.profit_cur)
            /\ pure.calls =
                  {[bot |-> B1, chat |-> User,
                    text |-> <<"OK Oplata podtverzhdena. Summa: ">>
                             \o pure.amount_human \o <<" ">> \o pure.in.cur
                             \o <<" (na schet: ">> \o pure.profit_human \o <<" ">>
                             \o pure.in.profit_cur \o <<")">>]}

\* 50000 RUB is shown as 500.00 and the same profit in EUR as 50000
C23_FiveHundredRub ==
    /\ pure.kind = "fmt_out"
    /\ pure.in.x = W_50000
    /\ pure.in.cur = V_RUB
    /\ pure.in.profit_cur = V_EUR
    /\ pure.amount_human = <<"5", "0", "0", ".", "0", "0">>
    /\ pure.profit_human = W_50000
    /\ \E c \in pure.calls : c.chat = User

-----------------------------------------------------------------------------
(* Access: the allow-lists and the commands that need them                 *)

\* An administrator adds and deletes chat 42 under either tenant and its own
\* id under B1, and asks both bots for the menu; chat 42 uses the bot of B1
\* and tries the allow-list commands itself
AccessRequests ==
    [key : {B1, B2}, header : {<<"w", "1">>},
     update : [kind : {"add", "delete"}, chat : {Admin}, arg : {W_42}]
              \cup [kind : {"start"}, chat : {Admin}, arg : {<<>>}]]
    \cup [key : {B1}, header : {<<"w", "1">>},
          update : [kind : {"add", "delete"}, chat : {Admin},
                    arg : {IntToStr(Admin), W_neg5, <<"²">>, <<"4", "¹">>,
                           W_42_dev}]]
    \cup [key : {B1}, header : {<<"w", "1">>},
          update : [kind : {"add", "delete"}, chat : {User}, arg : {W_100}]
                   \cup [kind : {"callback"}, chat : {User}, arg : {<<"pay_custom">>}]
                   \cup [kind : {"text"}, chat : {User}, arg : {W_500}]
                   \cup [kind : {"info"}, chat : {User}, arg : {<<"t1">>}]
                   \cup [kind : {"link"}, chat : {User}, arg : {L_u_c}]]

\* the one of them whose body comes late: the amount of chat 42
AccessLate ==
    {r \in AccessRequests : r.update.kind = "text"}

NextAccess ==
    \/ \E r \in AccessRequests : TgUpdate(r.key, r.header, r.update)
    \/ \E r \in AccessLate : TgSuspend(r.key, r.header, r.update)
    \/ \E i \in Slots : TgBody(i)
    \/ \E i \in Slots, ok \in BOOLEAN : InfoFinish(i, ok)
    \/ \E i \in Slots, out \in LinkOutcomes : LinkFinish(i, out)
    \/ \E i \in Slots, a \in Answers, l \in Links, ok \in BOOLEAN :
          AmountFinish(i, a, l, ok)

SpecAccess == Init /\ [][NextAccess]_vars

\* the request r is handed to its handler in this step: as it arrives, or
\* when its body is there
HandledNow(r) ==
    \/ TgUpdate(r.key, r.header, r.update)
    \/ \E i \in Slots :
          /\ upd[i].pc = "body" /\ upd[i].bot_key = r.key
          /\ upd[i].update = r.update
          /\ TgBody(i)

\* chat c is in the static allow-list or in tenant k's dynamic allow-list
Allowed(k, c) == c \in BASE_WHITELIST \/ c \in DYNAMIC_WHITELISTS[k]

\* C26: a payment request goes to the processor, and a session or order_map
\* entry is created or changed, only for a chat that is allowed under the
\* tenant when its command is handled; a chat command of a chat that is not
\* allowed, also one that was prompted for an amount while it still was,
\* sends no payment request, leaves last_link_msg and order_map unchanged and
\* is answered with the no-access message (a text of a chat that was not
\* prompted has no handler and is not answered at all)
C26_SessionsNeedAccess ==
    [][/\ \A r \in np_reqs' \ np_reqs : Allowed(r.bot_key, r.chat_id)
       /\ \A k \in BOT_KEYS, c \in Chats :
            (\/ (c \in DOMAIN last_link_msg'[k]) /= HasSession(k, c)
             \/ (HasSession(k, c) /\ last_link_msg'[k][c] /= last_link_msg[k][c])) =>
                Allowed(k, c)
       /\ \A o \in DOMAIN order_map' :
            (o \notin DOMAIN order_map \/ order_map'[o] /= order_map[o]) =>
                Allowed(order_map'[o].bot_key, order_map'[o].chat_id)
       /\ \A r \in AccessRequests :
            (/\ r.update.kind \in {"text", "info", "link"}
             /\ ~Allowed(r.key, r.update.chat)
             /\ HandledNow(r)) =>
                /\ np_reqs' = np_reqs
                /\ last_link_msg' = last_link_msg
                /\ order_map' = order_map
                /\ \A j \in Slots : ~InHandler(j)'
                /\ eff'.calls =
                      IF r.update.kind = "text"
                         /\ ~Prompted(r.key, r.update.chat)
                      THEN {}
                      ELSE {[bot |-> r.key, chat |-> r.update.chat,
                             what |-> "no_access"]}]_vars

\* chat 42 has a session from the time it was allowed and is now turned away
C26_TurnedAway ==
    /\ eff.op = "tg_webhook"
    /\ eff.calls = {[bot |-> B1, chat |-> User, what |-> "no_access"]}
    /\ ~Allowed(B1, User)
    /\ HasSession(B1, User)
    /\ last_link_msg[B1][User].order_id /= <<>>
    /\ ~Prompted(B1, User)

\* the allow-list commands in this model
ListCommands == {r \in AccessRequests : r.update.kind \in {"add", "delete"}}

\* the chat id an allow-list command names: the one word after the command,
\* read as an integer
Named(arg) ==
    IF Len(Words(arg)) = 1 THEN ParseInt(Words(arg)[1]) ELSE [ok |-> FALSE, val |-> 0]

\* C27: a tenant's dynamic allow-list changes only in a step that handles an
\* /add or /delete sent to that tenant's bot by a chat of the static
\* allow-list, by exactly the chat id the command names, and no other
\* tenant's list changes in that step; a chat of the static allow-list has
\* access under every tenant in every state and is never answered that it
\* has no access or no rights
C27_AllowListAdministration ==
    [][/\ \A k \in BOT_KEYS :
            DYNAMIC_WHITELISTS'[k] /= DYNAMIC_WHITELISTS[k] =>
                /\ \E r \in ListCommands :
                      /\ r.key = k
                      /\ r.update.chat \in BASE_WHITELIST
                      /\ HandledNow(r)
                      /\ Named(r.update.arg).ok
                      /\ DYNAMIC_WHITELISTS'[k] =
                            IF r.update.kind = "add"
                            THEN DYNAMIC_WHITELISTS[k] \cup {Named(r.update.arg).val}
                            ELSE DYNAMIC_WHITELISTS[k] \ {Named(r.update.arg).val}
                /\ \A k2 \in BOT_KEYS \ {k} :
                      DYNAMIC_WHITELISTS'[k2] = DYNAMIC_WHITELISTS[k2]
       /\ \A k \in BOT_KEYS, c \in BASE_WHITELIST : has_access(k, c)'
       /\ \A x \in eff'.calls :
            x.chat \in BASE_WHITELIST => x.what \notin {"no_access", "no_rights"}]_vars

\* chat 42 was added under both tenants and deleted under B1 alone, where it
\* has a session from before, and the administrator gets the menu
C27_DeletedUnderOneTenant ==
    /\ DYNAMIC_WHITELISTS[B1] = {}
    /\ DYNAMIC_WHITELISTS[B2] = {User}
    /\ HasSession(B1, User)
    /\ eff.op = "tg_webhook"
    /\ eff.key = B1
    /\ eff.calls = {[bot |-> B1, chat |-> Admin, what |-> "menu"]}

====
